---- MODULE Spec2Model ----
(***************************************************************************)
(* Model of the DeviceTree extension: the line-length diagnostics pass     *)
(* (src/src/diagnostics.ts), the event wiring of the extension             *)
(* (src/src/extension.ts) and the formatter (src/src/formatter.ts).        *)
(*                                                                         *)
(* Texts are sequences of one-character strings, so that every scan of the *)
(* source (tab stops, comment stripping, line splitting) is computed       *)
(* character by character as the code computes it.                         *)
(***************************************************************************)
EXTENDS Integers, Sequences, FiniteSets, TLC

VARIABLES
    \* ---- line-length pass run on one text (checkLineLength) ----
    lcText,         \* document.getText()
    lcTabSize,      \* this.tabSize
    lcMaxLineLength,\* this.maxLineLength (configured value + 1)
    lcInclude,      \* this.includeComments
    lcLengths,      \* visualLength of each line, in line order (the forEach local)
    lcResult,       \* the array returned by checkLineLength
    lcPc,           \* "ready" before the call, "done" after it
    \* ---- the activated extension (extension.ts) and its provider ----
    docText,        \* text of each dts document (document.getText())
    docClosed,      \* whether each document is closed
    editorTab,      \* options.tabSize of the visible editor showing EditorDoc
    pending,        \* setTimeout callbacks scheduled and not yet run, per document
    collection,     \* diagnosticCollection: uri -> diagnostics, or NoEntry
    provTabSize,    \* diagnosticsProvider.tabSize
    provMaxLineLength, \* diagnosticsProvider.maxLineLength
    provInclude,    \* diagnosticsProvider.includeComments
    provider,       \* the global diagnosticsProvider: "set" or "undefined"
    listening,      \* the four listeners are registered and not disposed
    cfgEnableWarnings, \* current value of devicetree.diagnostics.enableWarnings
    lastOp,         \* the provider call made by the last step, its document, its caller
    \* ---- DtsFormatter.format run on one text (formatter.ts) ----
    fmtInput,       \* the text handed to the first call of format
    fmtUseTabs,     \* this.useTabs
    fmtTabSize,     \* this.tabSize
    fmtMaxLineLength, \* this.maxLineLength (the provider passes its value + 1)
    fmtData,        \* the local data of format, rewritten by each pass
    fmtPc,          \* the pass format runs next, "done" after the last one
    fmtCall,        \* 1 during the first call of format, 2 during the call on its output
    fmtFirst,       \* the text returned by the first call
    fmtThrown,      \* message of the exception a pass threw in this call, or NotThrown
    fmtResult,      \* the ResultFormat format returned, NoResult while it runs
    fmtEdits,       \* what provideDocumentFormattingEdits returned, NoEdits before
    fmtShown        \* the text given to showErrorMessage, NothingShown if none

lcVars == <<lcText, lcTabSize, lcMaxLineLength, lcInclude, lcLengths, lcResult, lcPc>>

extVars == <<docText, docClosed, editorTab, pending, collection, provTabSize,
             provMaxLineLength, provInclude, provider, listening, cfgEnableWarnings,
             lastOp>>

fmtVars == <<fmtInput, fmtUseTabs, fmtTabSize, fmtMaxLineLength, fmtData, fmtPc, fmtCall,
             fmtFirst, fmtThrown, fmtResult, fmtEdits, fmtShown>>

vars == <<lcVars, extVars, fmtVars>>

-----------------------------------------------------------------------------
(* Bounds of the model *)

MaxLineChars == 2      \* longest line over {tab, x} drawn for the length pass
MaxDocLines == 2       \* most lines of a text drawn for the length pass
MaxTabSize == 3        \* tab widths 1..MaxTabSize
MaxLimit == 3          \* configured maxLineLength 1..MaxLimit
MaxPending == 2        \* most timers pending at once for one document

-----------------------------------------------------------------------------
(* Generic sequence helpers *)

TAB == "\t"
NL == "\n"
SP == " "

Max(a, b) == IF a >= b THEN a ELSE b
Min(a, b) == IF a <= b THEN a ELSE b

\* s.slice(i) with 1-based i: the suffix starting at position i
From(s, i) == IF i > Len(s) THEN <<>> ELSE SubSeq(s, i, Len(s))

\* true when the characters of p occur in s starting at position i
StartsAt(s, i, p) ==
    /\ i >= 1
    /\ i + Len(p) - 1 <= Len(s)
    /\ \A k \in 1..Len(p) : s[i + k - 1] = p[k]

\* first position >= i where p occurs in s, or 0
RECURSIVE IndexFrom(_, _, _)
IndexFrom(s, i, p) ==
    IF i + Len(p) - 1 > Len(s) THEN 0
    ELSE IF StartsAt(s, i, p) THEN i
    ELSE IndexFrom(s, i + 1, p)

\* String.prototype.split('\n'): the pieces between the separators
RECURSIVE SplitFrom(_, _, _)
SplitFrom(s, i, cur) ==
    IF i > Len(s) THEN <<cur>>
    ELSE IF s[i] = NL THEN <<cur>> \o SplitFrom(s, i + 1, <<>>)
    ELSE SplitFrom(s, i + 1, Append(cur, s[i]))

Split(s) == SplitFrom(s, 1, <<>>)

\* Array.prototype.join('\n')
RECURSIVE JoinNL(_)
JoinNL(ls) ==
    IF Len(ls) = 0 THEN <<>>
    ELSE IF Len(ls) = 1 THEN ls[1]
    ELSE ls[1] \o <<NL>> \o JoinNL(Tail(ls))

IsSpaceChar(c) == c \in {SP, TAB, NL, "\r", "\f"}

\* String.prototype.trimEnd
RECURSIVE trimEnd(_)
trimEnd(s) ==
    IF Len(s) > 0 /\ IsSpaceChar(s[Len(s)]) THEN trimEnd(SubSeq(s, 1, Len(s) - 1))
    ELSE s

\* String.prototype.trimStart
RECURSIVE trimStart(_)
trimStart(s) ==
    IF Len(s) > 0 /\ IsSpaceChar(s[1]) THEN trimStart(Tail(s))
    ELSE s

trim(s) == trimStart(trimEnd(s))

\* all sequences over S of length 0..n
RECURSIVE SeqsUpTo(_, _)
SeqsUpTo(S, n) ==
    IF n = 0 THEN {<<>>}
    ELSE LET shorter == SeqsUpTo(S, n - 1)
         IN  shorter \cup {Append(s, c) : s \in {t \in shorter : Len(t) = n - 1}, c \in S}

-----------------------------------------------------------------------------
(* diagnostics.ts: the pure part of DtsDiagnosticsProvider *)

\* calculateVisualLength: the step of the loop for one character
TabStopIgnored(visualLength, char, tabSize) ==
    IF char = TAB THEN visualLength + tabSize ELSE visualLength + 1

Advance(visualLength, char, tabSize) ==
    IF char = TAB THEN visualLength + (tabSize - (visualLength % tabSize))
    ELSE visualLength + 1

RECURSIVE VisualScan(_, _, _, _)
VisualScan(line, i, visualLength, tabSize) ==
    IF i > Len(line) THEN visualLength
    ELSE VisualScan(line, i + 1, Advance(visualLength, line[i], tabSize), tabSize)

calculateVisualLength(line, tabSize) == VisualScan(line, 1, 0, tabSize) + 1

\* line.replace(/\/\/.*$/, ''): cut the line at the first "//"
StripLineComment(line) ==
    LET p == IndexFrom(line, 1, <<"/", "/">>)
    IN  IF p = 0 THEN line ELSE SubSeq(line, 1, p - 1)

\* result.replace(/\/\*.*?\*\//g, ''): drop every "/*" ... "*/" span, left to
\* right; an opener without a closer stays
RECURSIVE StripBlockComments(_, _)
StripBlockComments(line, i) ==
    IF i > Len(line) THEN <<>>
    ELSE IF StartsAt(line, i, <<"/", "*">>) /\ IndexFrom(line, i + 2, <<"*", "/">>) # 0
         THEN StripBlockComments(line, IndexFrom(line, i + 2, <<"*", "/">>) + 2)
         ELSE <<line[i]>> \o StripBlockComments(line, i + 1)

removeComments(line) == trimEnd(StripBlockComments(StripLineComment(line), 1))

\* checkLineLength: the line measured, with or without its comments
LineToCheck(line, include) == IF include THEN line ELSE removeComments(line)

\* the visualLength computed for each line of the text, in order
VisualLengths(lines, tabSize, include) ==
    [n \in 1..Len(lines) |-> calculateVisualLength(LineToCheck(lines[n], include), tabSize)]

ExceedsAtOrAbove(visualLength, maxLineLength) == visualLength >= maxLineLength

\* if (visualLength > this.maxLineLength)
Exceeds(visualLength, maxLineLength) == visualLength > maxLineLength

LineIndexOneBased(n) == n

\* forEach's index of the n-th line (n counted from 1)
LineIndex(n) == n - 1

\* lines.forEach: one Diagnostic pushed per line over the limit; the record keeps
\* the line of its range and the two numbers of its message
RECURSIVE CheckLines(_, _, _)
CheckLines(lengths, n, maxLineLength) ==
    IF n > Len(lengths) THEN <<>>
    ELSE LET rest == CheckLines(lengths, n + 1, maxLineLength)
         IN  IF Exceeds(lengths[n], maxLineLength)
             THEN <<[line |-> LineIndex(n), limit |-> maxLineLength,
                     current |-> lengths[n]]>> \o rest
             ELSE rest

checkLineLength(text, tabSize, maxLineLength, include) ==
    CheckLines(VisualLengths(Split(text), tabSize, include), 1, maxLineLength)

-----------------------------------------------------------------------------
(* extension.ts and the stateful part of DtsDiagnosticsProvider *)

DtsDocs == {"a.dts", "b.dts"}
Docs == DtsDocs \cup {"c.txt"}
languageId(d) == IF d \in DtsDocs THEN "dts" ELSE "plaintext"

\* the one document shown in a visible text editor while it is open
EditorDoc == "a.dts"

\* editorConfig.get<number>('tabSize', 8)
DefaultTabSize == 8

\* config.get<number>('maxLineLength', 80)
DefaultMaxLineLength == 80

NoEntry == "none"
NotThrown == "none"
NoResult == "none"
NoEdits == "pending"
NothingShown == <<>>
NoOp == [op |-> "none", doc |-> "none", by |-> "none"]

ShortText == <<"x">>
TabbedText == <<TAB, "x">>
LongText == <<"x">> \o <<NL>> \o [i \in 1..(MaxLimit + 2) |-> "x"]
ExtTexts == {ShortText, TabbedText, LongText}
EditorTabSizes == {1, MaxTabSize}

\* analyzeDocument: the editor found in visibleTextEditors for the document
HasVisibleEditor(d) == d = EditorDoc /\ ~docClosed[d]

\* analyzeDocument, lines 96-102: this.tabSize after the editor lookup
TabSizeAfterLookup(d, edTab) == IF HasVisibleEditor(d) THEN edTab ELSE provTabSize

DiagnosticsKeptIfPresent(old, fresh) == IF old = NoEntry THEN fresh ELSE old

DiagnosticsAccumulated(old, fresh) == IF old = NoEntry THEN fresh ELSE old \o fresh

\* analyzeDocument, lines 104-109: the array handed to diagnosticCollection.set
DiagnosticsToSet(old, fresh) == fresh

\* analyzeDocument(document) with the editor's tab size edTab
analyzeDocument(d, edTab) ==
    IF languageId(d) # "dts"
    THEN UNCHANGED <<provTabSize, collection>>
    ELSE /\ provTabSize' = TabSizeAfterLookup(d, edTab)
         /\ collection' = [collection EXCEPT ![d] =
                DiagnosticsToSet(collection[d],
                    checkLineLength(docText'[d], TabSizeAfterLookup(d, edTab),
                                    provMaxLineLength, provInclude))]

\* clearDocument(document): diagnosticCollection.delete(document.uri)
clearDocument(d) == collection' = [collection EXCEPT ![d] = NoEntry]

\* the variables of the length pass while the extension is exercised
LcIdle ==
    /\ lcText = <<>>
    /\ lcTabSize = DefaultTabSize
    /\ lcMaxLineLength = MaxLimit + 1
    /\ lcInclude = TRUE
    /\ lcLengths = <<>>
    /\ lcResult = <<>>
    /\ lcPc = "idle"

\* the variables of the formatter while another part is exercised
FmtIdle ==
    /\ fmtInput = <<>>
    /\ fmtUseTabs = FALSE
    /\ fmtTabSize = DefaultTabSize
    /\ fmtMaxLineLength = DefaultMaxLineLength + 1
    /\ fmtData = <<>>
    /\ fmtPc = "idle"
    /\ fmtCall = 0
    /\ fmtFirst = <<>>
    /\ fmtThrown = NotThrown
    /\ fmtResult = NoResult
    /\ fmtEdits = NoEdits
    /\ fmtShown = NothingShown

\* activate(): the configuration is read once, the provider is constructed and the
\* listeners are registered only if enableWarnings is true
ExtInit ==
    /\ docText = [d \in DtsDocs |-> ShortText]
    /\ docClosed = [d \in Docs |-> TRUE]
    /\ editorTab \in EditorTabSizes
    /\ pending = [d \in DtsDocs |-> 0]
    /\ collection = [d \in DtsDocs |-> NoEntry]
    /\ provTabSize = DefaultTabSize
    /\ provMaxLineLength = MaxLimit + 1
    /\ provInclude = TRUE
    /\ provider = "set"
    /\ cfgEnableWarnings \in BOOLEAN
    /\ listening = cfgEnableWarnings
    /\ lastOp = NoOp
    /\ LcIdle
    /\ FmtIdle

\* the host opens a document; onDidOpenTextDocument handler
OpenDocument(d) ==
    /\ docClosed[d]
    /\ docClosed' = [docClosed EXCEPT ![d] = FALSE]
    /\ \E t \in ExtTexts :
          docText' = IF d \in DtsDocs THEN [docText EXCEPT ![d] = t] ELSE docText
    /\ IF listening /\ languageId(d) = "dts" /\ provider = "set"
       THEN /\ analyzeDocument(d, editorTab)
            /\ lastOp' = [op |-> "analyze", doc |-> d, by |-> "open"]
       ELSE /\ UNCHANGED <<provTabSize, collection>>
            /\ lastOp' = NoOp
    /\ UNCHANGED <<editorTab, pending, provMaxLineLength, provInclude, provider,
                   listening, cfgEnableWarnings>>
    /\ UNCHANGED <<lcVars, fmtVars>>

\* the host applies an edit; onDidChangeTextDocument handler schedules the callback
ChangeDocument(d) ==
    /\ ~docClosed[d]
    /\ \E t \in ExtTexts :
          docText' = IF d \in DtsDocs THEN [docText EXCEPT ![d] = t] ELSE docText
    /\ IF listening /\ languageId(d) = "dts" /\ provider = "set"
       THEN /\ pending[d] < MaxPending
            /\ pending' = [pending EXCEPT ![d] = @ + 1]
       ELSE UNCHANGED pending
    /\ lastOp' = NoOp
    /\ UNCHANGED <<docClosed, editorTab, collection, provTabSize, provMaxLineLength,
                   provInclude, provider, listening, cfgEnableWarnings>>
    /\ UNCHANGED <<lcVars, fmtVars>>

\* a callback that calls analyzeDocument whether or not the provider is still set
TimerFiresUnguarded(d) ==
    /\ pending[d] > 0
    /\ pending' = [pending EXCEPT ![d] = @ - 1]
    /\ UNCHANGED docText
    /\ analyzeDocument(d, editorTab)
    /\ lastOp' = [op |-> "analyze", doc |-> d, by |-> "timer"]
    /\ UNCHANGED <<docClosed, editorTab, provMaxLineLength, provInclude, provider,
                   listening, cfgEnableWarnings>>
    /\ UNCHANGED <<lcVars, fmtVars>>

\* a setTimeout callback runs: diagnosticsProvider?.analyzeDocument(event.document)
TimerFires(d) ==
    /\ pending[d] > 0
    /\ pending' = [pending EXCEPT ![d] = @ - 1]
    /\ UNCHANGED docText
    /\ IF provider = "set"
       THEN /\ analyzeDocument(d, editorTab)
            /\ lastOp' = [op |-> "analyze", doc |-> d, by |-> "timer"]
       ELSE /\ UNCHANGED <<provTabSize, collection>>
            /\ lastOp' = [op |-> "none", doc |-> d, by |-> "timer"]
    /\ UNCHANGED <<docClosed, editorTab, provMaxLineLength, provInclude, provider,
                   listening, cfgEnableWarnings>>
    /\ UNCHANGED <<lcVars, fmtVars>>

\* the tab size of the visible editor changes; onDidChangeTextEditorOptions handler
ChangeEditorOptions(t) ==
    /\ HasVisibleEditor(EditorDoc)
    /\ editorTab' = t
    /\ UNCHANGED docText
    /\ IF listening /\ languageId(EditorDoc) = "dts" /\ provider = "set"
       THEN /\ analyzeDocument(EditorDoc, t)
            /\ lastOp' = [op |-> "analyze", doc |-> EditorDoc, by |-> "options"]
       ELSE /\ UNCHANGED <<provTabSize, collection>>
            /\ lastOp' = NoOp
    /\ UNCHANGED <<docClosed, pending, provMaxLineLength, provInclude, provider,
                   listening, cfgEnableWarnings>>
    /\ UNCHANGED <<lcVars, fmtVars>>

\* the host closes a document; onDidCloseTextDocument handler
CloseDocument(d) ==
    /\ ~docClosed[d]
    /\ docClosed' = [docClosed EXCEPT ![d] = TRUE]
    /\ IF listening /\ languageId(d) = "dts" /\ provider = "set"
       THEN /\ clearDocument(d)
            /\ lastOp' = [op |-> "clear", doc |-> d, by |-> "close"]
       ELSE /\ UNCHANGED collection
            /\ lastOp' = NoOp
    /\ UNCHANGED <<docText, editorTab, pending, provTabSize, provMaxLineLength,
                   provInclude, provider, listening, cfgEnableWarnings>>
    /\ UNCHANGED <<lcVars, fmtVars>>

\* the user edits devicetree.diagnostics.enableWarnings; no listener is registered
\* for configuration changes
SetEnableWarnings(b) ==
    /\ cfgEnableWarnings # b
    /\ cfgEnableWarnings' = b
    /\ lastOp' = NoOp
    /\ UNCHANGED <<docText, docClosed, editorTab, pending, collection, provTabSize,
                   provMaxLineLength, provInclude, provider, listening>>
    /\ UNCHANGED <<lcVars, fmtVars>>

\* deactivate(): dispose() empties the collection, the global is reset; the host
\* disposes context.subscriptions, the listeners among them
Deactivate ==
    /\ provider = "set"
    /\ provider' = "undefined"
    /\ collection' = [d \in DtsDocs |-> NoEntry]
    /\ listening' = FALSE
    /\ lastOp' = [op |-> "dispose", doc |-> "none", by |-> "deactivate"]
    /\ UNCHANGED <<docText, docClosed, editorTab, pending, provTabSize,
                   provMaxLineLength, provInclude, cfgEnableWarnings>>
    /\ UNCHANGED <<lcVars, fmtVars>>

Next ==
    \/ \E d \in Docs : OpenDocument(d)
    \/ \E d \in Docs : ChangeDocument(d)
    \/ \E d \in DtsDocs : TimerFires(d)
    \/ \E t \in EditorTabSizes : ChangeEditorOptions(t)
    \/ \E d \in Docs : CloseDocument(d)
    \/ \E b \in BOOLEAN : SetEnableWarnings(b)
    \/ Deactivate

\* the variables of the extension while only the length pass is exercised
ExtIdle ==
    /\ docText = [d \in DtsDocs |-> ShortText]
    /\ docClosed = [d \in Docs |-> TRUE]
    /\ editorTab = 1
    /\ pending = [d \in DtsDocs |-> 0]
    /\ collection = [d \in DtsDocs |-> NoEntry]
    /\ provTabSize = DefaultTabSize
    /\ provMaxLineLength = MaxLimit + 1
    /\ provInclude = TRUE
    /\ provider = "undefined"
    /\ listening = FALSE
    /\ cfgEnableWarnings = FALSE
    /\ lastOp = NoOp

-----------------------------------------------------------------------------
(* The length pass on one text: inputs drawn in LcInit, one call of           *)
(* checkLineLength                                                            *)

PlainLines == SeqsUpTo({TAB, "x"}, MaxLineChars)

CommentLines ==
    { <<"x", "/", "/", "x", "x">>,
      <<"x", "/", "*", "x", "*", "/">>,
      <<TAB, "/", "*", "x", "*", "/", "x", "x">>,
      <<"x", "x", SP, "/", "*", "x">>,
      <<"x", "/", "*", "/", "/", "x", "*", "/">> }

LcLines == PlainLines \cup CommentLines

LcTexts == { JoinNL(ls) : ls \in UNION { [1..n -> LcLines] : n \in 1..MaxDocLines } }

LcInit ==
    /\ lcText \in LcTexts
    /\ lcTabSize \in 1..MaxTabSize
    /\ \E cfg \in 1..MaxLimit : lcMaxLineLength = cfg + 1
    /\ lcInclude \in BOOLEAN
    /\ lcLengths = <<>>
    /\ lcResult = <<>>
    /\ lcPc = "ready"
    /\ ExtIdle
    /\ FmtIdle

RunCheckLineLength ==
    /\ lcPc = "ready"
    /\ lcLengths' = VisualLengths(Split(lcText), lcTabSize, lcInclude)
    /\ lcResult' = checkLineLength(lcText, lcTabSize, lcMaxLineLength, lcInclude)
    /\ lcPc' = "done"
    /\ UNCHANGED <<lcText, lcTabSize, lcMaxLineLength, lcInclude>>
    /\ UNCHANGED <<extVars, fmtVars>>

LcNext == RunCheckLineLength

SpecLc == LcInit /\ [][LcNext]_vars

Spec == ExtInit /\ [][Next]_vars

-----------------------------------------------------------------------------
(* formatter.ts: character classes of its regular expressions *)

CR == "\r"
FF == "\f"
Whitespace == {SP, TAB, NL, CR, FF}                  \* \s
Blank == {SP, TAB}                                   \* [ \t] and [\t ]
LineEnd == {NL, CR}                                  \* what . does not match
Digit == {"0", "1", "2", "3", "4", "5", "6", "7", "8", "9"}
Lower == {"a", "b", "c", "d", "e", "f", "g", "h", "i", "j", "k", "l", "m",
          "n", "o", "p", "q", "r", "s", "t", "u", "v", "w", "x", "y", "z"}
Upper == {"A", "B", "C", "D", "E", "F", "G", "H", "I", "J", "K", "L", "M",
          "N", "O", "P", "Q", "R", "S", "T", "U", "V", "W", "X", "Y", "Z"}
WordChar == Digit \cup Lower \cup Upper \cup {"_"}   \* \w
NameChar == WordChar \cup {",", "-"}                 \* [\w,-]
PropChar == WordChar \cup {",", ".", "-"}            \* [\w,.-]
HexChar == Digit \cup {"a", "b", "c", "d", "e", "f", "A", "B", "C", "D", "E", "F"}

\* first position >= i whose character is not in S (Len(s) + 1 if none): the end of
\* a greedy run S*
RECURSIVE RunEnd(_, _, _)
RunEnd(s, i, S) == IF i <= Len(s) /\ s[i] \in S THEN RunEnd(s, i + 1, S) ELSE i

\* first position >= i whose character is in S (Len(s) + 1 if none)
RECURSIVE RunEndNot(_, _, _)
RunEndNot(s, i, S) == IF i <= Len(s) /\ s[i] \notin S THEN RunEndNot(s, i + 1, S) ELSE i

CharAt(s, i) == IF i >= 1 /\ i <= Len(s) THEN s[i] ELSE ""

\* ' '.repeat(n), '\t'.repeat(n)
Repeat(c, n) == [k \in 1..n |-> c]

\* a regular expression found at a position: where the match ends and what replaces
\* it; next = 0 when there is no match at that position
NoMatch == [next |-> 0, out |-> <<>>]

-----------------------------------------------------------------------------
(* formatter.ts: normalizeInput *)

\* data.replace(/\r\n/g, '\n')
RECURSIVE NormalizeLineEndings(_, _)
NormalizeLineEndings(s, i) ==
    IF i > Len(s) THEN <<>>
    ELSE IF StartsAt(s, i, <<CR, NL>>) THEN <<NL>> \o NormalizeLineEndings(s, i + 2)
    ELSE <<s[i]>> \o NormalizeLineEndings(s, i + 1)

\* /([\w,-]+)\s*:[\t ]*/ at position i, replaced by '$1: '
MatchLabel(s, i) ==
    LET e == RunEnd(s, i, NameChar)
        c == RunEnd(s, e, Whitespace)
    IN  IF e > i /\ CharAt(s, c) = ":"
        THEN [next |-> RunEnd(s, c + 1, Blank), out |-> SubSeq(s, i, e - 1) \o <<":", SP>>]
        ELSE NoMatch

RECURSIVE NormalizeLabels(_, _)
NormalizeLabels(s, i) ==
    IF i > Len(s) THEN <<>>
    ELSE LET m == MatchLabel(s, i)
         IN  IF m.next # 0 THEN m.out \o NormalizeLabels(s, m.next)
             ELSE <<s[i]>> \o NormalizeLabels(s, i + 1)

\* /(&[\w,-]+)\s*{[\t ]*/ at position i, replaced by '$1 {'
MatchReference(s, i) ==
    LET e == RunEnd(s, i + 1, NameChar)
        b == RunEnd(s, e, Whitespace)
    IN  IF CharAt(s, i) = "&" /\ e > i + 1 /\ CharAt(s, b) = "{"
        THEN [next |-> RunEnd(s, b + 1, Blank), out |-> SubSeq(s, i, e - 1) \o <<SP, "{">>]
        ELSE NoMatch

RECURSIVE NormalizeReferences(_, _)
NormalizeReferences(s, i) ==
    IF i > Len(s) THEN <<>>
    ELSE LET m == MatchReference(s, i)
         IN  IF m.next # 0 THEN m.out \o NormalizeReferences(s, m.next)
             ELSE <<s[i]>> \o NormalizeReferences(s, i + 1)

\* 0*([\da-fA-F]+) on the hexadecimal run s[a..h-1]: the zeros are consumed greedily
\* but at least one digit is left to the group
UnitAddress(s, a, h) ==
    LET z == RunEnd(s, a, {"0"})
    IN  IF z < h THEN SubSeq(s, z, h - 1) ELSE SubSeq(s, h - 1, h - 1)

\* /([\w,-]+)\s*@\s*0*([\da-fA-F]+)\s*{[\t ]*/ at position i, replaced by '$1@$2 {'
MatchNodeAddress(s, i) ==
    LET e == RunEnd(s, i, NameChar)
        at == RunEnd(s, e, Whitespace)
        a == RunEnd(s, at + 1, Whitespace)
        h == RunEnd(s, a, HexChar)
        b == RunEnd(s, h, Whitespace)
    IN  IF e > i /\ CharAt(s, at) = "@" /\ h > a /\ CharAt(s, b) = "{"
        THEN [next |-> RunEnd(s, b + 1, Blank),
              out |-> SubSeq(s, i, e - 1) \o <<"@">> \o UnitAddress(s, a, h) \o <<SP, "{">>]
        ELSE NoMatch

RECURSIVE NormalizeNodeAddresses(_, _)
NormalizeNodeAddresses(s, i) ==
    IF i > Len(s) THEN <<>>
    ELSE LET m == MatchNodeAddress(s, i)
         IN  IF m.next # 0 THEN m.out \o NormalizeNodeAddresses(s, m.next)
             ELSE <<s[i]>> \o NormalizeNodeAddresses(s, i + 1)

\* /([\w,-]+)\s+{/ at position i, replaced by '$1 {'
MatchNodeBrace(s, i) ==
    LET e == RunEnd(s, i, NameChar)
        b == RunEnd(s, e, Whitespace)
    IN  IF e > i /\ b > e /\ CharAt(s, b) = "{"
        THEN [next |-> b + 1, out |-> SubSeq(s, i, e - 1) \o <<SP, "{">>]
        ELSE NoMatch

RECURSIVE NormalizeNodeBraces(_, _)
NormalizeNodeBraces(s, i) ==
    IF i > Len(s) THEN <<>>
    ELSE LET m == MatchNodeBrace(s, i)
         IN  IF m.next # 0 THEN m.out \o NormalizeNodeBraces(s, m.next)
             ELSE <<s[i]>> \o NormalizeNodeBraces(s, i + 1)

Closer(c) == IF c = "<" THEN ">" ELSE IF c = "[" THEN "]" ELSE c

\* the lazy ".*?" / <.*?> / \[.*?\] followed by \s*; : the first closing character
\* at k >= i on the same line after which only whitespace precedes ';' (0 if none)
RECURSIVE ClosedBeforeSemicolon(_, _, _)
ClosedBeforeSemicolon(s, k, closer) ==
    IF k > Len(s) THEN 0
    ELSE IF s[k] = closer /\ CharAt(s, RunEnd(s, k + 1, Whitespace)) = ";" THEN k
    ELSE IF s[k] \in LineEnd THEN 0
    ELSE ClosedBeforeSemicolon(s, k + 1, closer)

\* /(\w+)\s*=\s*(".*?"|<.*?>|\[.*?\])\s*;/ at position i, replaced by '$1 = $2;'
MatchAssignment(s, i) ==
    LET e == RunEnd(s, i, WordChar)
        q == RunEnd(s, e, Whitespace)
        v == RunEnd(s, q + 1, Whitespace)
        k == ClosedBeforeSemicolon(s, v + 1, Closer(CharAt(s, v)))
    IN  IF e > i /\ CharAt(s, q) = "=" /\ CharAt(s, v) \in {"\"", "<", "["} /\ k # 0
        THEN [next |-> RunEnd(s, k + 1, Whitespace) + 1,
              out |-> SubSeq(s, i, e - 1) \o <<SP, "=", SP>> \o SubSeq(s, v, k) \o <<";">>]
        ELSE NoMatch

RECURSIVE NormalizeAssignments(_, _)
NormalizeAssignments(s, i) ==
    IF i > Len(s) THEN <<>>
    ELSE LET m == MatchAssignment(s, i)
         IN  IF m.next # 0 THEN m.out \o NormalizeAssignments(s, m.next)
             ELSE <<s[i]>> \o NormalizeAssignments(s, i + 1)

\* the lazy (.*?) followed by \s*> : the first k >= p, reached over characters of one
\* line, from which only whitespace precedes '>' (0 if none)
RECURSIVE CellEnd(_, _)
CellEnd(s, k) ==
    IF CharAt(s, RunEnd(s, k, Whitespace)) = ">" THEN k
    ELSE IF k > Len(s) \/ s[k] \in LineEnd THEN 0
    ELSE CellEnd(s, k + 1)

\* /<\s*(.*?)\s*>/ at position i, replaced by '<$1>'
MatchCell(s, i) ==
    LET p == RunEnd(s, i + 1, Whitespace)
        k == CellEnd(s, p)
    IN  IF CharAt(s, i) = "<" /\ k # 0
        THEN [next |-> RunEnd(s, k, Whitespace) + 1,
              out |-> <<"<">> \o SubSeq(s, p, k - 1) \o <<">">>]
        ELSE NoMatch

RECURSIVE NormalizeCells(_, _)
NormalizeCells(s, i) ==
    IF i > Len(s) THEN <<>>
    ELSE LET m == MatchCell(s, i)
         IN  IF m.next # 0 THEN m.out \o NormalizeCells(s, m.next)
             ELSE <<s[i]>> \o NormalizeCells(s, i + 1)

\* data.replace(/[ \t]+$/gm, ''): a run of blanks that reaches the end of its line
RECURSIVE RemoveTrailingWhitespace(_, _)
RemoveTrailingWhitespace(s, i) ==
    IF i > Len(s) THEN <<>>
    ELSE LET e == RunEnd(s, i, Blank)
         IN  IF e > i /\ (e > Len(s) \/ s[e] \in LineEnd)
             THEN RemoveTrailingWhitespace(s, e)
             ELSE <<s[i]>> \o RemoveTrailingWhitespace(s, i + 1)

\* data.replace(/\n{3,}/g, '\n\n')
RECURSIVE CollapseBlankLines(_, _)
CollapseBlankLines(s, i) ==
    IF i > Len(s) THEN <<>>
    ELSE LET e == RunEnd(s, i, {NL})
         IN  IF e - i >= 3 THEN <<NL, NL>> \o CollapseBlankLines(s, e)
             ELSE IF e > i THEN SubSeq(s, i, e - 1) \o CollapseBlankLines(s, e)
             ELSE <<s[i]>> \o CollapseBlankLines(s, i + 1)

\* ^ under the m flag: the start of the text or the position after a line terminator
AtLineStart(s, i) == i = 1 \/ (i > 1 /\ i <= Len(s) + 1 /\ s[i - 1] \in LineEnd)

\* normalizeIndentation: /^( {tabSize})+/gm to tabs, or /^\t+/gm to spaces
RECURSIVE normalizeIndentation(_, _, _, _)
normalizeIndentation(s, i, useTabs, tabSize) ==
    IF i > Len(s) THEN <<>>
    ELSE IF ~AtLineStart(s, i) THEN <<s[i]>> \o normalizeIndentation(s, i + 1, useTabs, tabSize)
    ELSE IF useTabs
         THEN LET groups == (RunEnd(s, i, {SP}) - i) \div tabSize
              IN  IF groups > 0
                  THEN Repeat(TAB, groups)
                         \o normalizeIndentation(s, i + groups * tabSize, useTabs, tabSize)
                  ELSE <<s[i]>> \o normalizeIndentation(s, i + 1, useTabs, tabSize)
         ELSE LET e == RunEnd(s, i, {TAB})
              IN  IF e > i
                  THEN Repeat(SP, (e - i) * tabSize)
                         \o normalizeIndentation(s, e, useTabs, tabSize)
                  ELSE <<s[i]>> \o normalizeIndentation(s, i + 1, useTabs, tabSize)

normalizeInput(data, useTabs, tabSize) ==
    LET d1 == NormalizeLineEndings(data, 1)
        d2 == NormalizeLabels(d1, 1)
        d3 == NormalizeReferences(d2, 1)
        d4 == NormalizeNodeAddresses(d3, 1)
        d5 == NormalizeNodeBraces(d4, 1)
        d6 == NormalizeAssignments(d5, 1)
        d7 == NormalizeCells(d6, 1)
        d8 == RemoveTrailingWhitespace(d7, 1)
        d9 == CollapseBlankLines(d8, 1)
    IN  normalizeIndentation(d9, 1, useTabs, tabSize)

-----------------------------------------------------------------------------
(* formatter.ts: formatBlockStructure *)

\* data.replace(/\t/g, ' '.repeat(this.tabSize))
RECURSIVE replaceTabsWithSpaces(_, _)
replaceTabsWithSpaces(data, tabSize) ==
    IF Len(data) = 0 THEN <<>>
    ELSE (IF Head(data) = TAB THEN Repeat(SP, tabSize) ELSE <<Head(data)>>)
             \o replaceTabsWithSpaces(Tail(data), tabSize)

\* String.prototype.endsWith for a one-character argument
EndsWith(s, c) == Len(s) > 0 /\ s[Len(s)] = c

\* calculateContinuationIndent: the columns from the indent to two past the '=' of
\* the line (indexOf is -1 without '='), as spaces, whole tabSize groups as tabs
calculateContinuationIndent(line, indent, useTabs, tabSize) ==
    LET expandedLine == replaceTabsWithSpaces(line, tabSize)
        expandedIndent == replaceTabsWithSpaces(indent, tabSize)
        indexOfEq == IndexFrom(expandedLine, 1, <<"=">>) - 1
        spacesNeeded == Max(indexOfEq + 2 - Len(expandedIndent), 0)
    IN  IF useTabs
        THEN Repeat(TAB, spacesNeeded \div tabSize) \o Repeat(SP, spacesNeeded % tabSize)
        ELSE Repeat(SP, spacesNeeded)

\* /(\S+)\s*{\s*};?/ at position i, replaced by '$1 {\n};': the longest run of
\* non-whitespace after which "{", whitespace and "}" follow
MatchEmptyBlock(s, i) ==
    LET r == RunEndNot(s, i, Whitespace)
        ends == {e \in (i + 1)..r :
                    LET b == RunEnd(s, e, Whitespace)
                    IN  CharAt(s, b) = "{" /\ CharAt(s, RunEnd(s, b + 1, Whitespace)) = "}"}
    IN  IF ends = {} THEN NoMatch
        ELSE LET e == CHOOSE x \in ends : \A y \in ends : y <= x
                 c == RunEnd(s, RunEnd(s, e, Whitespace) + 1, Whitespace)
             IN  [next |-> IF CharAt(s, c + 1) = ";" THEN c + 2 ELSE c + 1,
                  out |-> SubSeq(s, i, e - 1) \o <<SP, "{", NL, "}", ";">>]

RECURSIVE ExpandEmptyBlocks(_, _)
ExpandEmptyBlocks(s, i) ==
    IF i > Len(s) THEN <<>>
    ELSE LET m == MatchEmptyBlock(s, i)
         IN  IF m.next # 0 THEN m.out \o ExpandEmptyBlocks(s, m.next)
             ELSE <<s[i]>> \o ExpandEmptyBlocks(s, i + 1)

\* /{\s*(\S)/ at position i, replaced by '{\n$1'
MatchOpeningBrace(s, i) ==
    LET c == RunEnd(s, i + 1, Whitespace)
    IN  IF CharAt(s, i) = "{" /\ c <= Len(s)
        THEN [next |-> c + 1, out |-> <<"{", NL, s[c]>>]
        ELSE NoMatch

RECURSIVE SplitOpeningBraces(_, _)
SplitOpeningBraces(s, i) ==
    IF i > Len(s) THEN <<>>
    ELSE LET m == MatchOpeningBrace(s, i)
         IN  IF m.next # 0 THEN m.out \o SplitOpeningBraces(s, m.next)
             ELSE <<s[i]>> \o SplitOpeningBraces(s, i + 1)

\* data.split(/\r?\n/): the pieces between "\n", a "\r" before the "\n" dropped
SplitLines(s) ==
    LET pieces == Split(s)
    IN  [n \in 1..Len(pieces) |->
            IF n < Len(pieces) /\ EndsWith(pieces[n], CR)
            THEN SubSeq(pieces[n], 1, Len(pieces[n]) - 1)
            ELSE pieces[n]]

\* (line.match(/{/g) ?? []).length and the same for '}'
Count(line, c) == Cardinality({k \in 1..Len(line) : line[k] = c})
BraceDelta(line) == Count(line, "{") - Count(line, "}")

\* an indent that is kept whole when it is shorter than what the line closes
IndentKeptWhenShort(indent, n) == IF n > Len(indent) THEN indent ELSE From(indent, n + 1)

\* indent.slice(indentStep.length * -delta): the closing line loses delta steps, and
\* an indent shorter than that becomes empty
IndentClamped(indent, n) == From(indent, n + 1)

\* the value of indent after the callback of lines.map has run for lines 1..n
RECURSIVE IndentAfter(_, _, _, _)
IndentAfter(lines, n, useTabs, tabSize) ==
    IF n = 0 THEN <<>>
    ELSE LET indent == IndentAfter(lines, n - 1, useTabs, tabSize)
             line == lines[n]
             indentStep == IF useTabs THEN <<TAB>> ELSE Repeat(SP, tabSize)
             delta == BraceDelta(line)
             closed == IF delta < 0
                       THEN IndentClamped(indent, Len(indentStep) * (0 - delta))
                       ELSE indent
         IN  IF Len(line) = 0 THEN indent
             ELSE IF delta > 0
             THEN closed \o Repeat(indentStep[1], Len(indentStep) * delta)
             ELSE closed

\* the callback of lines.map for the lines from n on, with the indent and the
\* continuation indent the earlier lines left
RECURSIVE IndentLines(_, _, _, _, _, _)
IndentLines(lines, n, indent, commaIndent, useTabs, tabSize) ==
    IF n > Len(lines) THEN <<>>
    ELSE LET line == lines[n]
             indentStep == IF useTabs THEN <<TAB>> ELSE Repeat(SP, tabSize)
             delta == BraceDelta(line)
             closed == IF delta < 0
                       THEN IndentClamped(indent, Len(indentStep) * (0 - delta))
                       ELSE indent
             ends == EndsWith(trimEnd(line), ";")
             currentCommaIndent == IF ends THEN <<>> ELSE commaIndent
             commaKept == IF ends THEN <<>> ELSE commaIndent
             opened == IF delta > 0
                       THEN closed \o Repeat(indentStep[1], Len(indentStep) * delta)
                       ELSE closed
             commaNext == IF Len(commaKept) = 0 /\ EndsWith(trimEnd(line), ",")
                          THEN calculateContinuationIndent(line, opened, useTabs, tabSize)
                          ELSE commaKept
         IN  IF Len(line) = 0
             THEN <<line>> \o IndentLines(lines, n + 1, indent, commaIndent, useTabs, tabSize)
             ELSE <<closed \o currentCommaIndent \o trimStart(line)>>
                     \o IndentLines(lines, n + 1, opened, commaNext, useTabs, tabSize)

formatBlockStructure(data, useTabs, tabSize) ==
    LET d1 == ExpandEmptyBlocks(data, 1)
        d2 == SplitOpeningBraces(d1, 1)
    IN  JoinNL(IndentLines(SplitLines(d2), 1, <<>>, <<>>, useTabs, tabSize))

-----------------------------------------------------------------------------
(* formatter.ts: value lists *)

\* the lazy .*? followed by p: the first position >= k where p occurs, reached over
\* characters of one line (0 if none)
RECURSIVE FindOnLine(_, _, _)
FindOnLine(s, k, p) ==
    IF StartsAt(s, k, p) THEN k
    ELSE IF k > Len(s) \/ s[k] \in LineEnd THEN 0
    ELSE FindOnLine(s, k + 1, p)

\* (?:".*?"|<.*?>|\[.*?\]|[^,])+? at position i: the lazy repetition stops after one
\* alternative, a closed string, cell list or byte list, or else one character that
\* is not a comma; the position of its last character (0 at a comma)
ItemEnd(s, i) ==
    LET closed == IF s[i] \in {"\"", "<", "["}
                  THEN FindOnLine(s, i + 1, <<Closer(s[i])>>)
                  ELSE 0
    IN  IF closed # 0 THEN closed
        ELSE IF s[i] = "," THEN 0
        ELSE i

\* ([ \t]*(?:\/\/.*|\/\*.*?\*\/)?)? at position g: the position after it
CommentEnd(s, g) ==
    LET t == RunEnd(s, g, Blank)
        c == FindOnLine(s, t + 2, <<"*", "/">>)
    IN  IF StartsAt(s, t, <<"/", "/">>) THEN RunEndNot(s, t, LineEnd)
        ELSE IF StartsAt(s, t, <<"/", "*">>) /\ c # 0 THEN c + 2
        ELSE t

\* the while loop over regex.exec(val) from position i on
RECURSIVE ParseValuesFrom(_, _)
ParseValuesFrom(val, i) ==
    IF i > Len(val) THEN <<>>
    ELSE IF ItemEnd(val, i) = 0 THEN ParseValuesFrom(val, i + 1)
    ELSE LET j == ItemEnd(val, i)
             g == IF CharAt(val, j + 1) = "," THEN j + 1 ELSE j
             e == CommentEnd(val, g + 1)
             valuePart == trimEnd(SubSeq(val, i, g))
             commentPart == trimEnd(SubSeq(val, g + 1, e - 1))
             value == valuePart \o (IF Len(commentPart) > 0 THEN <<SP>> \o commentPart
                                    ELSE <<>>)
         IN  (IF Len(valuePart) > 0 \/ Len(commentPart) > 0 THEN <<value>> ELSE <<>>)
                 \o ParseValuesFrom(val, e)

parseCommaSeparatedValues(val) == ParseValuesFrom(val, 1)

\* insideBrackets.split(/\s+/) for a trimmed string
RECURSIVE SplitWhitespace(_, _, _)
SplitWhitespace(s, i, cur) ==
    IF i > Len(s) THEN <<cur>>
    ELSE IF s[i] \in Whitespace
         THEN <<cur>> \o SplitWhitespace(s, RunEnd(s, i, Whitespace), <<>>)
    ELSE SplitWhitespace(s, i + 1, Append(cur, s[i]))

\* parts.slice(1).join(' ')
RECURSIVE JoinSpace(_)
JoinSpace(parts) ==
    IF Len(parts) = 0 THEN <<>>
    ELSE IF Len(parts) = 1 THEN parts[1]
    ELSE parts[1] \o <<SP>> \o JoinSpace(Tail(parts))

NoKeyValue(value, isLast) ==
    [key |-> <<>>, valueInside |-> <<>>, trailingPunct |-> <<>>, comment |-> <<>>,
     isLast |-> isLast, hasKeyValue |-> FALSE, originalValue |-> value]

\* the callback of values.map in parseValueStructure: /^<([^>]+)>([,;]?)(.*?)$/
ParseValue(value, isLast) ==
    LET g == RunEndNot(value, 2, {">"})
        hasPunct == CharAt(value, g + 1) \in {",", ";"}
        r == IF hasPunct THEN g + 2 ELSE g + 1
        matches == /\ CharAt(value, 1) = "<"
                   /\ g > 2
                   /\ g <= Len(value)
                   /\ \A k \in (g + 1)..Len(value) : value[k] \notin LineEnd
        parts == SplitWhitespace(trim(SubSeq(value, 2, g - 1)), 1, <<>>)
    IN  IF matches /\ Len(parts) > 1
        THEN [key |-> parts[1],
              valueInside |-> JoinSpace(Tail(parts)),
              trailingPunct |-> IF hasPunct THEN <<value[g + 1]>> ELSE <<>>,
              comment |-> trim(From(value, r)),
              isLast |-> isLast,
              hasKeyValue |-> TRUE,
              originalValue |-> value]
        ELSE NoKeyValue(value, isLast)

parseValueStructure(values) ==
    [n \in 1..Len(values) |-> ParseValue(values[n], n = Len(values))]

\* the line of a value without key: align + value.trim(), ';' added to the last one
\* unless it ends with ';'
SimpleLine(value, isLast, align) ==
    LET line == align \o trim(value)
    IN  IF isLast /\ ~EndsWith(line, ";") THEN line \o <<";">> ELSE line

formatSimpleValues(values, align) ==
    JoinNL([n \in 1..Len(values) |-> SimpleLine(values[n], n = Len(values), align)])

\* calculateTabSpaceAlignment: tabs up to the first tab stop at or past toPosition,
\* or toPosition - fromPosition spaces
RECURSIVE calculateTabSpaceAlignment(_, _, _, _)
calculateTabSpaceAlignment(fromPosition, toPosition, useTabs, tabSize) ==
    IF useTabs
    THEN IF fromPosition < toPosition
         THEN <<TAB>> \o calculateTabSpaceAlignment(
                             fromPosition + (tabSize - (fromPosition % tabSize)),
                             toPosition, useTabs, tabSize)
         ELSE <<>>
    ELSE Repeat(SP, toPosition - fromPosition)

VisualKeyLength(p, tabSize) == Len(replaceTabsWithSpaces(p.key, tabSize))

\* Math.max(...parsedValues.filter(p => p.hasKeyValue).map(...)); without any key the
\* result (-Infinity in the source) is used by no entry, -1 stands for it
MaxVisualKeyLength(parsedValues, tabSize) ==
    LET lengths == {VisualKeyLength(parsedValues[n], tabSize) :
                        n \in {m \in 1..Len(parsedValues) : parsedValues[m].hasKeyValue}}
    IN  IF lengths = {} THEN -1
        ELSE CHOOSE x \in lengths : \A y \in lengths : y <= x

\* the callback of parsedValues.map in formatKeyValuePairs
KeyValueLine(parsed, align, maxVisualKeyLength, useTabs, tabSize) ==
    LET openBracketPosition == Len(replaceTabsWithSpaces(align, tabSize)) + 1
        targetPosition == openBracketPosition + maxVisualKeyLength + 1
        currentKeyEndPosition == openBracketPosition + VisualKeyLength(parsed, tabSize)
        alignment == calculateTabSpaceAlignment(currentKeyEndPosition, targetPosition,
                                                useTabs, tabSize)
        punct == IF Len(parsed.trailingPunct) > 0 THEN parsed.trailingPunct
                 ELSE IF parsed.isLast THEN <<";">>
                 ELSE <<",">>
        comment == IF Len(parsed.comment) > 0 THEN <<SP>> \o parsed.comment ELSE <<>>
    IN  IF ~parsed.hasKeyValue
        THEN SimpleLine(parsed.originalValue, parsed.isLast, align)
        ELSE align \o <<"<">> \o parsed.key \o alignment \o parsed.valueInside \o <<">">>
                \o punct \o comment

\* formatKeyValuePairs with the maximum key length given by the caller
formatKeyValuePairs(parsedValues, align, maxVisualKeyLength, useTabs, tabSize) ==
    JoinNL([n \in 1..Len(parsedValues) |->
               KeyValueLine(parsedValues[n], align, maxVisualKeyLength, useTabs, tabSize)])

\* formatValueGroup; formatKeyValuePairs is called without a maximum and computes it
\* over the values it is given
formatValueGroup(values, align, useTabs, tabSize) ==
    LET parsedValues == parseValueStructure(values)
    IN  IF Len(values) = 0 THEN <<>>
        ELSE IF \A n \in 1..Len(parsedValues) : ~parsedValues[n].hasKeyValue
             THEN formatSimpleValues(values, align)
        ELSE formatKeyValuePairs(parsedValues, align,
                                 MaxVisualKeyLength(parsedValues, tabSize), useTabs, tabSize)

-----------------------------------------------------------------------------
(* formatter.ts: property assignments *)

\* line.replace(/\/\*.*?\*\/\s*$/, ''): the text is cut at the first "/*" that is
\* closed on its line by a "*/" after which only whitespace reaches the end
StripTrailingBlockComment(s) ==
    LET starts == {i \in 1..Len(s) :
                      /\ StartsAt(s, i, <<"/", "*">>)
                      /\ \E c \in (i + 2)..Len(s) :
                            /\ StartsAt(s, c, <<"*", "/">>)
                            /\ \A k \in (i + 2)..(c - 1) : s[k] \notin LineEnd
                            /\ RunEnd(s, c + 2, Whitespace) > Len(s)}
    IN  IF starts = {} THEN s
        ELSE SubSeq(s, 1, (CHOOSE x \in starts : \A y \in starts : x <= y) - 1)

\* formattedValues.replace(/\n/g, ' ')
JoinedOnOneLine(s) == [k \in 1..Len(s) |-> IF s[k] = NL THEN SP ELSE s[k]]

NotOnOneLine == <<>>

\* tryFormatAsSingleLine: the values joined on the property's line, or null (here
\* the empty text, which no result is) when the line is too long
tryFormatAsSingleLine(start, val, values, useTabs, tabSize, maxLineLength) ==
    LET originalLine == start \o val \o <<";">>
        originalLineWithoutComments == trim(StripTrailingBlockComment(originalLine))
        hasComment == originalLine # originalLineWithoutComments
    IN  IF ~hasComment
           \/ Len(replaceTabsWithSpaces(originalLineWithoutComments, tabSize)) <= maxLineLength
        THEN start \o JoinedOnOneLine(formatValueGroup(values, <<>>, useTabs, tabSize))
        ELSE NotOnOneLine

\* an alignment that stops at the column of the blank after "prop ="
AlignmentBeforeBlank(indentation, prop, useTabs, tabSize) ==
    LET eqPos == Len(replaceTabsWithSpaces(indentation \o prop \o <<SP, "=">>, tabSize))
    IN  IF useTabs
        THEN Repeat(TAB, eqPos \div tabSize) \o Repeat(SP, eqPos % tabSize)
        ELSE Repeat(SP, eqPos)

\* calculateValueAlignment: the column after "prop = ", as tabs and spaces
calculateValueAlignment(indentation, prop, useTabs, tabSize) ==
    LET eqPos == Len(replaceTabsWithSpaces(indentation \o prop \o <<SP, "=", SP>>, tabSize))
    IN  IF useTabs
        THEN Repeat(TAB, eqPos \div tabSize) \o Repeat(SP, eqPos % tabSize)
        ELSE Repeat(SP, eqPos)

\* the maximum key length formatAsMultiLine hands to formatKeyValuePairs for the
\* first value: computed over all the values
FirstLineKeyLength(values, tabSize) == MaxVisualKeyLength(parseValueStructure(values), tabSize)

\* formatAsMultiLine: the first value on the property's line when it fits, the others
\* below it; the remaining values are formatted as a group of their own
formatAsMultiLine(indentation, prop, values, useTabs, tabSize, maxLineLength) ==
    LET start == indentation \o prop \o <<SP, "=", SP>>
        align == calculateValueAlignment(indentation, prop, useTabs, tabSize)
        allParsedValues == parseValueStructure(values)
        firstFormattedValue == formatKeyValuePairs(<<allParsedValues[1]>>, align,
                                   FirstLineKeyLength(values, tabSize), useTabs, tabSize)
        firstValueOnly == From(firstFormattedValue, RunEnd(firstFormattedValue, 1, Blank))
        firstLine == start \o firstValueOnly
        firstLineWithoutComment == trim(StripTrailingBlockComment(firstLine))
        firstLineLength == Len(replaceTabsWithSpaces(firstLineWithoutComment, tabSize))
    IN  IF firstLineLength <= maxLineLength /\ Len(values) > 1
        THEN firstLine \o <<NL>> \o formatValueGroup(Tail(values), align, useTabs, tabSize)
        ELSE indentation \o prop \o <<SP, "=">> \o <<NL>>
                \o formatValueGroup(values, align, useTabs, tabSize)

formatMultiLineProperty(indentation, prop, val, useTabs, tabSize, maxLineLength) ==
    LET start == indentation \o prop \o <<SP, "=", SP>>
        values == parseCommaSeparatedValues(val)
        singleLineResult == tryFormatAsSingleLine(start, val, values, useTabs, tabSize,
                                                  maxLineLength)
    IN  IF Len(values) = 0 THEN start \o val \o <<";">>
        ELSE IF singleLineResult # NotOnOneLine THEN singleLineResult
        ELSE formatAsMultiLine(indentation, prop, values, useTabs, tabSize, maxLineLength)

\* ;([ \t]*(?:\/\/.*|\/\*.*?\*\/)?)?$ with the ';' at position k: the end of the line
\* when blanks, then a "//" comment, a "/*" comment ending the line, or nothing,
\* reach it (0 if not)
TailEnd(s, k) ==
    LET t == RunEnd(s, k + 1, Blank)
        lineEnd == RunEndNot(s, t, LineEnd)
    IN  IF t = lineEnd THEN lineEnd
        ELSE IF StartsAt(s, t, <<"/", "/">>) THEN lineEnd
        ELSE IF StartsAt(s, t, <<"/", "*">>) /\ lineEnd - 2 >= t + 2
                /\ StartsAt(s, lineEnd - 2, <<"*", "/">>) THEN lineEnd
        ELSE 0

\* the lazy ([\s\S]*?) followed by ';' and the tail: the first ';' at position >= k
\* whose tail reaches the end of its line (0 if none)
RECURSIVE ValueEnd(_, _)
ValueEnd(s, k) ==
    IF k > Len(s) THEN 0
    ELSE IF s[k] = ";" /\ TailEnd(s, k) # 0 THEN k
    ELSE ValueEnd(s, k + 1)

\* val.match(/^(.*?)([ \t]+(?:\/\/.*|\/\*.*?\*\/))(.*)$/): the first run of blanks
\* that a "//" comment or a closed "/*" comment follows; where the run starts and
\* where the comment ends (start = 0 without a match)
ValueComment(val) ==
    LET starts == {p \in 1..Len(val) :
                      LET b == RunEnd(val, p, Blank)
                      IN  /\ b > p
                          /\ \/ StartsAt(val, b, <<"/", "/">>)
                             \/ /\ StartsAt(val, b, <<"/", "*">>)
                                /\ FindOnLine(val, b + 2, <<"*", "/">>) # 0}
        p == CHOOSE x \in starts : \A y \in starts : x <= y
        b == RunEnd(val, p, Blank)
    IN  IF starts = {} \/ \E k \in 1..Len(val) : val[k] \in LineEnd
        THEN [start |-> 0, end |-> 0]
        ELSE [start |-> p,
              end |-> IF StartsAt(val, b, <<"/", "/">>) THEN Len(val) + 1
                      ELSE FindOnLine(val, b + 2, <<"*", "/">>) + 2]

\* the replacement callback of formatPropertyAssignments
PropertyReplacement(indentation, prop, val, commentText, useTabs, tabSize, maxLineLength) ==
    LET valueCommentMatch == ValueComment(val)
        cleanVal == IF valueCommentMatch.start # 0
                    THEN trim(SubSeq(val, 1, valueCommentMatch.start - 1))
                    ELSE trim(val)
        extractedComment == IF valueCommentMatch.start # 0
                            THEN trim(SubSeq(val, valueCommentMatch.start,
                                             valueCommentMatch.end - 1))
                            ELSE trim(commentText)
        fullLine == indentation \o prop \o <<SP, "=", SP>> \o cleanVal
                       \o (IF Len(extractedComment) > 0
                           THEN <<";", SP>> \o extractedComment
                           ELSE <<";">>)
    IN  IF (\A k \in 1..Len(val) : val[k] # NL)
           /\ Len(replaceTabsWithSpaces(fullLine, tabSize)) <= maxLineLength
        THEN fullLine
        ELSE formatMultiLineProperty(indentation, prop, val \o commentText,
                                     useTabs, tabSize, maxLineLength)

\* /^([ \t]*)([\w,.-]+)\s*=\s*([\s\S]*?);([ \t]*(?:\/\/.*|\/\*.*?\*\/)?)?$/ at
\* position i, replaced by the callback's result
MatchProperty(s, i, useTabs, tabSize, maxLineLength) ==
    LET b == RunEnd(s, i, Blank)
        e == RunEnd(s, b, PropChar)
        q == RunEnd(s, e, Whitespace)
        v == RunEnd(s, q + 1, Whitespace)
        k == ValueEnd(s, v)
    IN  IF AtLineStart(s, i) /\ e > b /\ CharAt(s, q) = "=" /\ k # 0
        THEN [next |-> TailEnd(s, k),
              out |-> PropertyReplacement(SubSeq(s, i, b - 1), SubSeq(s, b, e - 1),
                                          SubSeq(s, v, k - 1),
                                          SubSeq(s, k + 1, TailEnd(s, k) - 1),
                                          useTabs, tabSize, maxLineLength)]
        ELSE NoMatch

\* the values the callback hands on, val + commentText, one for every match of the
\* property pattern from position i on
RECURSIVE PropertyValuesFrom(_, _)
PropertyValuesFrom(s, i) ==
    IF i > Len(s) THEN {}
    ELSE LET b == RunEnd(s, i, Blank)
             e == RunEnd(s, b, PropChar)
             q == RunEnd(s, e, Whitespace)
             v == RunEnd(s, q + 1, Whitespace)
             k == ValueEnd(s, v)
         IN  IF AtLineStart(s, i) /\ e > b /\ CharAt(s, q) = "=" /\ k # 0
             THEN {SubSeq(s, v, k - 1) \o SubSeq(s, k + 1, TailEnd(s, k) - 1)}
                     \cup PropertyValuesFrom(s, TailEnd(s, k))
             ELSE PropertyValuesFrom(s, i + 1)

RECURSIVE FormatPropertiesFrom(_, _, _, _, _)
FormatPropertiesFrom(s, i, useTabs, tabSize, maxLineLength) ==
    IF i > Len(s) THEN <<>>
    ELSE LET m == MatchProperty(s, i, useTabs, tabSize, maxLineLength)
         IN  IF m.next # 0
             THEN m.out \o FormatPropertiesFrom(s, m.next, useTabs, tabSize, maxLineLength)
             ELSE <<s[i]>> \o FormatPropertiesFrom(s, i + 1, useTabs, tabSize, maxLineLength)

formatPropertyAssignments(data, useTabs, tabSize, maxLineLength) ==
    FormatPropertiesFrom(data, 1, useTabs, tabSize, maxLineLength)

-----------------------------------------------------------------------------
(* formatter.ts: formatComments and format *)

\* content.replace(/^([ \t]*)\*/gm, '$1 *') on the text of one block comment
RECURSIVE AlignCommentStars(_, _)
AlignCommentStars(content, i) ==
    IF i > Len(content) THEN <<>>
    ELSE LET b == RunEnd(content, i, Blank)
         IN  IF AtLineStart(content, i) /\ CharAt(content, b) = "*"
             THEN SubSeq(content, i, b - 1) \o <<SP, "*">> \o AlignCommentStars(content, b + 1)
             ELSE <<content[i]>> \o AlignCommentStars(content, i + 1)

\* the first "*/" at position >= k, on any line (0 if none)
RECURSIVE FindFrom(_, _, _)
FindFrom(s, k, p) ==
    IF k > Len(s) THEN 0
    ELSE IF StartsAt(s, k, p) THEN k
    ELSE FindFrom(s, k + 1, p)

\* data.replace(/\/\*[\s\S]*?\*\//g, ...)
RECURSIVE formatCommentsFrom(_, _)
formatCommentsFrom(s, i) ==
    IF i > Len(s) THEN <<>>
    ELSE LET c == FindFrom(s, i + 2, <<"*", "/">>)
         IN  IF StartsAt(s, i, <<"/", "*">>) /\ c # 0
             THEN AlignCommentStars(SubSeq(s, i, c + 1), 1) \o formatCommentsFrom(s, c + 2)
             ELSE <<s[i]>> \o formatCommentsFrom(s, i + 1)

formatComments(data) == formatCommentsFrom(data, 1)

\* format: the four passes in order
format(data, useTabs, tabSize, maxLineLength) ==
    formatComments(
        formatPropertyAssignments(
            formatBlockStructure(normalizeInput(data, useTabs, tabSize), useTabs, tabSize),
            useTabs, tabSize, maxLineLength))

\* return [result.join('\n'), { success: true }]: the ResultFormat has no message
Succeeded == [success |-> TRUE, message |-> <<>>]

\* catch (ex): { success: false, message: `Formatting failed: ${errorMessage}` }
Failed(errorMessage) ==
    [success |-> FALSE, message |-> <<"Formatting failed: ", errorMessage>>]

\* the passes of the try block, in the order format runs them
FormatPasses ==
    {"normalizeInput", "formatBlockStructure", "formatPropertyAssignments",
     "formatComments"}

\* ex.message of the errors the engine raises inside a pass
ThrownMessages == {"Invalid string length", "Maximum call stack size exceeded"}

\* provideDocumentFormattingEdits: the condition of its error branch
FormattingFailed(result, formatResult) == ~formatResult.success \/ result = <<>>

EditsDespiteFailure(result, formatResult) == <<[newText |-> result]>>

\* provideDocumentFormattingEdits: the array it returns, one TextEdit.replace of the
\* whole document or nothing
FormattingEdits(result, formatResult) ==
    IF FormattingFailed(result, formatResult)
    THEN <<>>
    ELSE <<[newText |-> result]>>

\* provideDocumentFormattingEdits: the text handed to showErrorMessage
ErrorMessageShown(result, formatResult) ==
    IF FormattingFailed(result, formatResult)
    THEN <<"DeviceTree: ">> \o (IF formatResult.message # <<>>
                                THEN formatResult.message
                                ELSE <<"Formatting failed">>)
    ELSE NothingShown

-----------------------------------------------------------------------------
(* One text formatted, then its output formatted again: the inputs are drawn  *)
(* in FmtInit, each action is one pass of format                              *)

MaxFmtPieces == 3        \* most fragments a drawn text is made of
MaxFormatCalls == 2      \* format is called on the input, then on its output
NarrowMaxLineLength == 12 \* a configured maxLineLength that the longer fragments exceed
MaxMarkPieces == 2       \* most fragments of a text drawn from MarkPieces
MaxValuePieces == 2      \* most fragments of a text drawn from ValuePieces
MaxMalformedPieces == 2  \* most fragments of a text drawn from MalformedPieces

\* / {
RootNode ==
    <<"/", " ", "{">>

\* };
CloseNode ==
    <<"}", ";">>

\* a: n@010 {
LabelledNode ==
    <<"a", ":", " ", "n", "@", "0", "1", "0", " ", "{">>

\* p = <1>;
CellProperty ==
    <<"p", " ", "=", " ", "<", "1", ">", ";">>

\* p = "a:b";
StringProperty ==
    <<"p", " ", "=", " ", "\"", "a", ":", "b", "\"", ";">>

\* p = "x";   // cc
CommentedProperty ==
    <<"p", " ", "=", " ", "\"", "x", "\"", ";", " ", " ", " ", "/", "/", " ", "c", "c">>

\* q = <aa 1>, <b 2>, <c 3>;
KeyValueProperty ==
    <<"q", " ", "=", " ", "<", "a", "a", " ", "1", ">", ",", " ", "<", "b", " ", "2",
    ">", ",", " ", "<", "c", " ", "3", ">", ";">>

\* q = <aa 1>,\n<b 2>; /* c */
TwoLineProperty ==
    <<"q", " ", "=", " ", "<", "a", "a", " ", "1", ">", ",", "\n", "<", "b", " ", "2",
    ">", ";", " ", "/", "*", " ", "c", " ", "*", "/">>

\* 
BlankLine ==
    <<>>

\* /* c\n* d */
BlockComment ==
    <<"/", "*", " ", "c", "\n", "*", " ", "d", " ", "*", "/">>

\* \tr = [ 01 ] ;
ByteProperty ==
    <<"\t", "r", " ", "=", " ", "[", " ", "0", "1", " ", "]", " ", ";">>

FmtPieces ==
    {RootNode, CloseNode, LabelledNode, CellProperty, StringProperty, CommentedProperty,
     KeyValueProperty, TwoLineProperty, BlankLine, BlockComment, ByteProperty}

\* a page break as it is written in sources: a blank line, a line holding a form
\* feed, a blank line
PageBreak ==
    <<"\n", "\f", "\n">>

\* /*\n * see http://x\n */
LinkComment ==
    <<"/", "*", "\n", " ", "*", " ", "s", "e", "e", " ", "h", "t", "t", "p", ":", "/",
    "/", "x", "\n", " ", "*", "/">>

\* n@000 {
ZeroNode ==
    <<"n", "@", "0", "0", "0", " ", "{">>

\* n.@010 {
DottedNode ==
    <<"n", ".", "@", "0", "1", "0", " ", "{">>

\* fragments with the characters the passes treat specially: whitespace that is
\* neither blank nor a line end, ':' inside a comment, '.' in a node name
MarkPieces ==
    {RootNode, CloseNode, CellProperty, LabelledNode, PageBreak, LinkComment, ZeroNode,
     DottedNode}

\* r = &ab, &cd;
BareListProperty ==
    <<"r", " ", "=", " ", "&", "a", "b", ",", " ", "&", "c", "d", ";">>

\* st = "a,b", "c";
StringListProperty ==
    <<"s", "t", " ", "=", " ", "\"", "a", ",", "b", "\"", ",", " ", "\"", "c", "\"", ";">>

\* t = <1>, // c\n<2>;
CommentedListProperty ==
    <<"t", " ", "=", " ", "<", "1", ">", ",", " ", "/", "/", " ", "c", "\n", "<", "2",
    ">", ";">>

\* u = <1>,\n<2>;
ContinuedProperty ==
    <<"u", " ", "=", " ", "<", "1", ">", ",", "\n", "<", "2", ">", ";">>

\* a = <1, 2;
UnclosedCells ==
    <<"a", " ", "=", " ", "<", "1", ",", " ", "2", ";">>

\* b = "x;
UnclosedString ==
    <<"b", " ", "=", " ", "\"", "x", ";">>

\* c = [01;
UnclosedBytes ==
    <<"c", " ", "=", " ", "[", "0", "1", ";">>

\* d = <1>; /* c
UnclosedComment ==
    <<"d", " ", "=", " ", "<", "1", ">", ";", " ", "/", "*", " ", "c">>

\* }; };
DoubleClose ==
    <<"}", ";", " ", "}", ";">>

\* fragments with a delimiter that nothing closes or a brace that nothing opens, and
\* well-formed ones around them
WellFormedPieces == {RootNode, CloseNode, CellProperty}
MalformedPieces ==
    WellFormedPieces
        \cup {UnclosedCells, UnclosedString, UnclosedBytes, UnclosedComment, DoubleClose}

\* fragments whose property values are lists of entries
ValuePieces ==
    {RootNode, CloseNode, KeyValueProperty, TwoLineProperty, CommentedProperty,
     BareListProperty, StringListProperty, CommentedListProperty, ContinuedProperty}

FmtTexts == {JoinNL(ps) : ps \in SeqsUpTo(FmtPieces, MaxFmtPieces)}
MarkTexts == {JoinNL(ps) : ps \in SeqsUpTo(MarkPieces, MaxMarkPieces)}
ValueTexts == {JoinNL(ps) : ps \in SeqsUpTo(ValuePieces, MaxValuePieces)}
MalformedTexts == {JoinNL(ps) : ps \in SeqsUpTo(MalformedPieces, MaxMalformedPieces)}
FmtTabSizes == {2, 4}
FmtLimits == {NarrowMaxLineLength, DefaultMaxLineLength}

\* new DtsFormatter(useTabs, tabSize, this.maxLineLength + 1, ...) and the entry of
\* format(document.getText()); a TextDocument has at least one line, so the
\* lineCount === 0 return of the provider is not taken
FmtInit ==
    /\ fmtInput \in FmtTexts
    /\ fmtUseTabs \in BOOLEAN
    /\ fmtTabSize \in FmtTabSizes
    /\ fmtMaxLineLength \in {limit + 1 : limit \in FmtLimits}
    /\ fmtData = fmtInput
    /\ fmtPc = "normalizeInput"
    /\ fmtCall = 1
    /\ fmtFirst = <<>>
    /\ fmtThrown = NotThrown
    /\ fmtResult = NoResult
    /\ fmtEdits = NoEdits
    /\ fmtShown = NothingShown
    /\ LcIdle
    /\ ExtIdle

\* the same entry of format for the texts of MarkTexts
MarkInit ==
    /\ fmtInput \in MarkTexts
    /\ fmtUseTabs \in BOOLEAN
    /\ fmtTabSize \in FmtTabSizes
    /\ fmtMaxLineLength \in {limit + 1 : limit \in FmtLimits}
    /\ fmtData = fmtInput
    /\ fmtPc = "normalizeInput"
    /\ fmtCall = 1
    /\ fmtFirst = <<>>
    /\ fmtThrown = NotThrown
    /\ fmtResult = NoResult
    /\ fmtEdits = NoEdits
    /\ fmtShown = NothingShown
    /\ LcIdle
    /\ ExtIdle

\* the same entry of format for the texts of ValueTexts
ValueInit ==
    /\ fmtInput \in ValueTexts
    /\ fmtUseTabs \in BOOLEAN
    /\ fmtTabSize \in FmtTabSizes
    /\ fmtMaxLineLength \in {limit + 1 : limit \in FmtLimits}
    /\ fmtData = fmtInput
    /\ fmtPc = "normalizeInput"
    /\ fmtCall = 1
    /\ fmtFirst = <<>>
    /\ fmtThrown = NotThrown
    /\ fmtResult = NoResult
    /\ fmtEdits = NoEdits
    /\ fmtShown = NothingShown
    /\ LcIdle
    /\ ExtIdle

\* the same entry of format for the texts of MalformedTexts
MalformedInit ==
    /\ fmtInput \in MalformedTexts
    /\ fmtUseTabs \in BOOLEAN
    /\ fmtTabSize \in FmtTabSizes
    /\ fmtMaxLineLength \in {limit + 1 : limit \in FmtLimits}
    /\ fmtData = fmtInput
    /\ fmtPc = "normalizeInput"
    /\ fmtCall = 1
    /\ fmtFirst = <<>>
    /\ fmtThrown = NotThrown
    /\ fmtResult = NoResult
    /\ fmtEdits = NoEdits
    /\ fmtShown = NothingShown
    /\ LcIdle
    /\ ExtIdle

\* data = this.normalizeInput(data)
StepNormalizeInput ==
    /\ fmtPc = "normalizeInput"
    /\ fmtData' = normalizeInput(fmtData, fmtUseTabs, fmtTabSize)
    /\ fmtPc' = "formatBlockStructure"
    /\ UNCHANGED <<fmtInput, fmtUseTabs, fmtTabSize, fmtMaxLineLength, fmtCall, fmtFirst>>
    /\ UNCHANGED <<fmtThrown, fmtResult, fmtEdits, fmtShown>>
    /\ UNCHANGED <<lcVars, extVars>>

\* data = this.formatBlockStructure(data)
StepFormatBlockStructure ==
    /\ fmtPc = "formatBlockStructure"
    /\ fmtData' = formatBlockStructure(fmtData, fmtUseTabs, fmtTabSize)
    /\ fmtPc' = "formatPropertyAssignments"
    /\ UNCHANGED <<fmtInput, fmtUseTabs, fmtTabSize, fmtMaxLineLength, fmtCall, fmtFirst>>
    /\ UNCHANGED <<fmtThrown, fmtResult, fmtEdits, fmtShown>>
    /\ UNCHANGED <<lcVars, extVars>>

\* data = this.formatPropertyAssignments(data)
StepFormatPropertyAssignments ==
    /\ fmtPc = "formatPropertyAssignments"
    /\ fmtData' = formatPropertyAssignments(fmtData, fmtUseTabs, fmtTabSize, fmtMaxLineLength)
    /\ fmtPc' = "formatComments"
    /\ UNCHANGED <<fmtInput, fmtUseTabs, fmtTabSize, fmtMaxLineLength, fmtCall, fmtFirst>>
    /\ UNCHANGED <<fmtThrown, fmtResult, fmtEdits, fmtShown>>
    /\ UNCHANGED <<lcVars, extVars>>

\* data = this.formatComments(data); return [result.join('\n'), { success: true }]
StepFormatComments ==
    /\ fmtPc = "formatComments"
    /\ fmtData' = formatComments(fmtData)
    /\ fmtPc' = "done"
    /\ fmtFirst' = IF fmtCall = 1 THEN fmtData' ELSE fmtFirst
    /\ fmtResult' = Succeeded
    /\ UNCHANGED <<fmtInput, fmtUseTabs, fmtTabSize, fmtMaxLineLength, fmtCall>>
    /\ UNCHANGED <<fmtThrown, fmtEdits, fmtShown>>
    /\ UNCHANGED <<lcVars, extVars>>

\* format is called again, with the same options, on the text it returned
FormatAgain ==
    /\ fmtPc = "done"
    /\ fmtCall < MaxFormatCalls
    /\ fmtCall' = fmtCall + 1
    /\ fmtPc' = "normalizeInput"
    /\ fmtResult' = NoResult
    /\ UNCHANGED <<fmtInput, fmtUseTabs, fmtTabSize, fmtMaxLineLength, fmtData, fmtFirst>>
    /\ UNCHANGED <<fmtThrown, fmtEdits, fmtShown>>
    /\ UNCHANGED <<lcVars, extVars>>

\* a pass throws: the catch block of format returns ['', { success: false, message }]
PassThrows ==
    /\ fmtPc \in FormatPasses
    /\ \E errorMessage \in ThrownMessages :
          /\ fmtThrown' = errorMessage
          /\ fmtResult' = Failed(errorMessage)
    /\ fmtData' = <<>>
    /\ fmtPc' = "failed"
    /\ UNCHANGED <<fmtInput, fmtUseTabs, fmtTabSize, fmtMaxLineLength, fmtCall, fmtFirst,
                   fmtEdits, fmtShown>>
    /\ UNCHANGED <<lcVars, extVars>>

\* provideDocumentFormattingEdits after format has returned [result, formatResult]
ProvideDocumentFormattingEdits ==
    /\ fmtPc \in {"done", "failed"}
    /\ fmtEdits' = FormattingEdits(fmtData, fmtResult)
    /\ fmtShown' = ErrorMessageShown(fmtData, fmtResult)
    /\ fmtPc' = "returned"
    /\ UNCHANGED <<fmtInput, fmtUseTabs, fmtTabSize, fmtMaxLineLength, fmtData, fmtCall,
                   fmtFirst, fmtThrown, fmtResult>>
    /\ UNCHANGED <<lcVars, extVars>>

\* the diagnostics provider, constructed from the same configured maxLineLength
\* (the formatter holds that value + 1) and measuring with the same tab width,
\* checks the text format returned
AnalyzeFormatted ==
    /\ fmtPc = "done"
    /\ lcText' = fmtData
    /\ lcTabSize' = fmtTabSize
    /\ lcMaxLineLength' = (fmtMaxLineLength - 1) + 1
    /\ lcInclude' \in BOOLEAN
    /\ lcLengths' = VisualLengths(Split(lcText'), lcTabSize', lcInclude')
    /\ lcResult' = checkLineLength(lcText', lcTabSize', lcMaxLineLength', lcInclude')
    /\ lcPc' = "done"
    /\ fmtPc' = "analyzed"
    /\ UNCHANGED <<fmtInput, fmtUseTabs, fmtTabSize, fmtMaxLineLength, fmtData, fmtCall,
                   fmtFirst, fmtThrown, fmtResult, fmtEdits, fmtShown>>
    /\ UNCHANGED extVars

FmtNext ==
    \/ StepNormalizeInput
    \/ StepFormatBlockStructure
    \/ StepFormatPropertyAssignments
    \/ StepFormatComments
    \/ FormatAgain
    \/ PassThrows
    \/ ProvideDocumentFormattingEdits
    \/ AnalyzeFormatted

SpecFmt == FmtInit /\ [][FmtNext]_vars

SpecFmtMarks == MarkInit /\ [][FmtNext]_vars

SpecFmtValues == ValueInit /\ [][FmtNext]_vars

SpecFmtMalformed == MalformedInit /\ [][FmtNext]_vars

-----------------------------------------------------------------------------
(* Reference notions the length claims are stated with *)

\* column reached on a line: a tab moves to the next multiple of w, any other
\* character moves one column
RECURSIVE ColumnAfter(_, _)
ColumnAfter(line, w) ==
    IF Len(line) = 0 THEN 0
    ELSE LET before == ColumnAfter(SubSeq(line, 1, Len(line) - 1), w)
         IN  IF line[Len(line)] = TAB THEN ((before \div w) + 1) * w ELSE before + 1

\* number of leading tabs of a line
RECURSIVE LeadingTabs(_)
LeadingTabs(line) ==
    IF Len(line) > 0 /\ line[1] = TAB THEN 1 + LeadingTabs(Tail(line)) ELSE 0

NoTabFrom(line, i) == \A k \in i..Len(line) : line[k] # TAB

LcLinesOf == Split(lcText)
LcMeasured(n) == LineToCheck(LcLinesOf[n], lcInclude)
LcConfigured == lcMaxLineLength - 1
LcFlagged(n) == \E k \in 1..Len(lcResult) : lcResult[k].line = n - 1

\* C5: a line gets a diagnostic exactly when the tab-expanded width of the measured
\* line exceeds the configured maxLineLength (visual length > maxLength + 1); a line
\* of exactly maxLineLength columns is not flagged, one of maxLineLength + 1 is.
C5_FlaggedIffTooWide ==
    lcPc = "done" =>
        \A n \in 1..Len(LcLinesOf) :
            /\ LcFlagged(n) <=> ColumnAfter(LcMeasured(n), lcTabSize) > LcConfigured
            /\ LcFlagged(n) <=> lcLengths[n] > LcConfigured + 1
            /\ ColumnAfter(LcMeasured(n), lcTabSize) = LcConfigured => ~LcFlagged(n)
            /\ ColumnAfter(LcMeasured(n), lcTabSize) = LcConfigured + 1 => LcFlagged(n)

\* a checked text with a line of exactly the configured width (not flagged) and a
\* line one column wider (flagged)
C5_Witness ==
    /\ lcPc = "done"
    /\ \E n, m \in 1..Len(LcLinesOf) :
          /\ ColumnAfter(LcMeasured(n), lcTabSize) = LcConfigured
          /\ ~LcFlagged(n)
          /\ ColumnAfter(LcMeasured(m), lcTabSize) = LcConfigured + 1
          /\ LcFlagged(m)

\* C6: the visual length of a line is one plus the column reached (1 per non-tab
\* character, next multiple of w per tab); k tabs then n non-tab characters measure
\* k*w + n + 1, and an empty line measures 1.
C6_VisualLength ==
    lcPc = "done" =>
        \A n \in 1..Len(LcLinesOf) :
            LET line == LcMeasured(n)
                k == LeadingTabs(line)
            IN  /\ lcLengths[n] = ColumnAfter(line, lcTabSize) + 1
                /\ NoTabFrom(line, k + 1) =>
                       lcLengths[n] = k * lcTabSize + (Len(line) - k) + 1
                /\ Len(line) = 0 => lcLengths[n] = 1

\* a measured line with a tab after a non-tab character at a width where the tab
\* does not advance a whole tab width, and an empty line
C6_Witness ==
    /\ lcPc = "done"
    /\ lcTabSize > 1
    /\ \E n, m \in 1..Len(LcLinesOf) :
          /\ LcMeasured(n) = <<"x", TAB>>
          /\ lcLengths[n] = lcTabSize + 1
          /\ LcMeasured(m) = <<>>

\* C7: the diagnostics hold exactly one entry per over-long line and none for any
\* other line, in ascending line order, each at the zero-based index of its line
\* with a message carrying the line's visual length and the limit compared against.
C7_OneEntryPerLongLine ==
    lcPc = "done" =>
        /\ \A k \in 1..Len(lcResult) :
              /\ lcResult[k].line + 1 \in 1..Len(LcLinesOf)
              /\ lcLengths[lcResult[k].line + 1] > lcMaxLineLength
              /\ lcResult[k].current = ColumnAfter(LcMeasured(lcResult[k].line + 1), lcTabSize) + 1
              /\ lcResult[k].limit = lcMaxLineLength
        /\ \A j, k \in 1..Len(lcResult) : j < k => lcResult[j].line < lcResult[k].line
        /\ \A n \in 1..Len(LcLinesOf) :
              ColumnAfter(LcMeasured(n), lcTabSize) + 1 > lcMaxLineLength =>
                  Cardinality({k \in 1..Len(lcResult) : lcResult[k].line = n - 1}) = 1

\* a text whose first line is short and whose second line is too long: the only
\* diagnostic is at index 1
C7_Witness ==
    /\ lcPc = "done"
    /\ Len(LcLinesOf) = 2
    /\ Len(lcResult) = 1
    /\ lcResult[1].line = 1

-----------------------------------------------------------------------------
(* Reference notions the formatter claims are stated with *)

Contains(line, c) == \E k \in 1..Len(line) : line[k] = c
Occurs(p, s) == IndexFrom(s, 1, p) # 0

\* a text without its whitespace
RECURSIVE Squeeze(_)
Squeeze(s) ==
    IF Len(s) = 0 THEN <<>>
    ELSE (IF Head(s) \in Whitespace THEN <<>> ELSE <<Head(s)>>) \o Squeeze(Tail(s))

\* the units of a text read left to right from position i: a "//" comment up to the
\* end of its line, a closed "/*" comment, a string closed on its line, a "<...>" or
\* "[...]" list closed on its line (strings and lists with their delimiters)
RECURSIVE UnitsFrom(_, _)
UnitsFrom(s, i) ==
    IF i > Len(s) THEN {}
    ELSE LET lineEnd == RunEndNot(s, i, LineEnd)
             commentEnd == FindFrom(s, i + 2, <<"*", "/">>)
             closed == IF s[i] \in {"\"", "<", "["}
                       THEN FindOnLine(s, i + 1, <<Closer(s[i])>>)
                       ELSE 0
         IN  IF StartsAt(s, i, <<"/", "/">>)
             THEN {[kind |-> "comment", text |-> SubSeq(s, i + 2, lineEnd - 1)]}
                     \cup UnitsFrom(s, lineEnd)
             ELSE IF StartsAt(s, i, <<"/", "*">>) /\ commentEnd # 0
             THEN {[kind |-> "comment", text |-> SubSeq(s, i + 2, commentEnd - 1)]}
                     \cup UnitsFrom(s, commentEnd + 2)
             ELSE IF closed # 0
             THEN {[kind |-> IF s[i] = "\"" THEN "string" ELSE "list",
                    text |-> SubSeq(s, i, closed)]}
                     \cup UnitsFrom(s, closed + 1)
             ELSE UnitsFrom(s, i + 1)

\* every string of the input occurs in the output character for character, every
\* list and comment at least up to whitespace
ContentPreserved(input, output) ==
    \A u \in UnitsFrom(input, 1) :
        IF u.kind = "string" THEN Occurs(u.text, output)
        ELSE Occurs(Squeeze(u.text), Squeeze(output))

\* number of '{' minus number of '}' on the lines before line n
RECURSIVE DepthBefore(_, _)
DepthBefore(lines, n) ==
    IF n <= 1 THEN 0 ELSE DepthBefore(lines, n - 1) + BraceDelta(lines[n - 1])

\* the depth of line n: a line that closes more than it opens is one of the block
\* it closes
LineDepth(lines, n) == DepthBefore(lines, n) + Min(0, BraceDelta(lines[n]))

\* line n continues a property: an earlier line holds the '=' and no line from that
\* one up to line n - 1 holds a ';'
ContinuationLine(lines, n) ==
    \E m \in 1..(n - 1) :
        /\ Contains(lines[m], "=")
        /\ \A j \in m..(n - 1) : ~Contains(lines[j], ";")

\* the text ends inside a block comment
RECURSIVE EndsInsideComment(_, _)
EndsInsideComment(s, i) ==
    LET open == FindFrom(s, i, <<"/", "*">>)
        close == FindFrom(s, open + 2, <<"*", "/">>)
    IN  IF open = 0 THEN FALSE
        ELSE IF close = 0 THEN TRUE
        ELSE EndsInsideComment(s, close + 2)

\* line n is a '*' line of a block comment opened on an earlier line
CommentStarLine(lines, n) ==
    /\ CharAt(trimStart(lines[n]), 1) = "*"
    /\ EndsInsideComment(JoinNL(SubSeq(lines, 1, n - 1)), 1)

Indentation(line) == SubSeq(line, 1, RunEnd(line, 1, Blank) - 1)

IndentUnits(depth, useTabs, tabSize) ==
    IF useTabs THEN Repeat(TAB, depth) ELSE Repeat(SP, depth * tabSize)

\* every non-empty line that neither continues a property nor is a '*' line of a
\* block comment, met while no line has closed more blocks than were open, is
\* indented by exactly its depth
IndentEqualsDepth(output, useTabs, tabSize) ==
    LET lines == Split(output)
    IN  \A n \in 1..Len(lines) :
            (/\ Len(lines[n]) > 0
             /\ ~ContinuationLine(lines, n)
             /\ ~CommentStarLine(lines, n)
             /\ \A m \in 1..n : LineDepth(lines, m) >= 0)
            => Indentation(lines[n]) = IndentUnits(LineDepth(lines, n), useTabs, tabSize)

\* where the payload of the key/value entry "<KEY V...>" opening at position i of a
\* line starts (0 if the list at i is not such an entry)
EntryPayloadStart(line, i) ==
    LET k == RunEndNot(line, i + 1, Blank \cup {">"})
        b == RunEnd(line, k, Blank)
    IN  IF CharAt(line, i) = "<" /\ k > i + 1 /\ b > k /\ b <= Len(line) /\ line[b] # ">"
        THEN b
        ELSE 0

\* the entry at position i is followed by ',' and by no other entry on its line
EntryEndsLine(line, i) ==
    LET g == RunEndNot(line, i, {">"})
    IN  /\ CharAt(line, g + 1) = ","
        /\ \A k \in (g + 2)..Len(line) : line[k] \notin {"<", ";"}

\* position of the entry that follows "name =" on a property's line, and of the entry
\* a continuation line starts with (0 if there is none)
PropertyEntry(line) ==
    LET q == RunEndNot(line, 1, {"=", "<"})
        i == RunEnd(line, q + 1, Blank)
    IN  IF CharAt(line, q) = "=" /\ CharAt(line, i) = "<" THEN i ELSE 0

LeadingEntry(line) ==
    LET i == RunEnd(line, 1, Blank)
    IN  IF CharAt(line, i) = "<" THEN i ELSE 0

\* visual column at which position b of the line starts
ColumnOf(line, b, tabSize) == ColumnAfter(SubSeq(line, 1, b - 1), tabSize)

\* whenever a line of a value list ends with a key/value entry and its ',' and the
\* next line starts with a key/value entry, the two payloads start at the same column
PayloadsAligned(output, tabSize) ==
    LET lines == Split(output)
    IN  \A n \in 1..(Len(lines) - 1) :
            \A i \in {PropertyEntry(lines[n]), LeadingEntry(lines[n])} \ {0} :
                LET j == LeadingEntry(lines[n + 1])
                IN  (/\ EntryPayloadStart(lines[n], i) # 0
                     /\ EntryEndsLine(lines[n], i)
                     /\ j # 0
                     /\ EntryPayloadStart(lines[n + 1], j) # 0)
                    => ColumnOf(lines[n], EntryPayloadStart(lines[n], i), tabSize)
                         = ColumnOf(lines[n + 1], EntryPayloadStart(lines[n + 1], j), tabSize)

-----------------------------------------------------------------------------
(* Claims about DtsFormatter.format *)

FirstCallDone == fmtPc = "done" /\ fmtCall = 1
SecondCallDone == fmtPc = "done" /\ fmtCall = 2

\* C1: for every input and option set, formatting the output of format again returns
\* it unchanged: format(format(x)) = format(x).
C1_Idempotent ==
    SecondCallDone => fmtData = fmtFirst

\* C2: every quoted string, cell-array payload, byte-array payload and comment body
\* of the input appears in the output with the same characters (strings exactly,
\* lists and comments here even only up to whitespace).
C2_ContentPreserved ==
    FirstCallDone => ContentPreserved(fmtInput, fmtData)

\* C3: in the output every non-empty line that is not a continuation line of a
\* multi-line value is indented by exactly depth indent units, depth being the '{'
\* minus the '}' of the preceding lines, reduced by the line's own net closing count;
\* checked here only while the depth has not gone below zero and not for the '*'
\* lines of block comments.
C3_IndentEqualsDepth ==
    FirstCallDone => IndentEqualsDepth(fmtData, fmtUseTabs, fmtTabSize)

\* C4: in a value list laid out over several lines the payloads of all key/value
\* entries, the one on the property's first line included, start at the same visual
\* column, in tab and in space mode.
C4_PayloadsAligned ==
    FirstCallDone => PayloadsAligned(fmtData, fmtTabSize)

-----------------------------------------------------------------------------
(* Claims about the activated extension *)

HasDiagnostics(d) == collection[d] # NoEntry /\ Len(collection[d]) > 0

\* C8: once a dts document is closed the collection holds no entry for it, and none
\* is created afterwards, whatever the interleaving of the close event with earlier
\* change events and their delayed analyzeDocument callbacks.
C8_NoEntryWhileClosed ==
    \A d \in DtsDocs : docClosed[d] => collection[d] = NoEntry

\* C9: while devicetree.diagnostics.enableWarnings is false no document has
\* line-length diagnostics: none is published, and none published earlier remains.
C9_NoDiagnosticsWhenDisabled ==
    ~cfgEnableWarnings => \A d \in DtsDocs : ~HasDiagnostics(d)

\* C10: after analyzeDocument(d) the diagnostics stored for d are exactly those of
\* d's current text (nothing of an earlier analysis remains) and the entries of all
\* other documents are unchanged.
C10_AnalyzeReplaces ==
    [][lastOp'.op = "analyze" =>
          LET d == lastOp'.doc
              lines == Split(docText'[d])
              stored == collection'[d]
          IN  /\ stored # NoEntry
              /\ stored = checkLineLength(docText'[d], provTabSize',
                                          provMaxLineLength', provInclude')
              /\ {stored[k].line : k \in 1..Len(stored)} =
                    {n - 1 : n \in {m \in 1..Len(lines) :
                        ColumnAfter(lines[m], provTabSize') + 1 > provMaxLineLength'}}
              /\ Len(stored) <= Len(lines)
              /\ \A e \in DtsDocs \ {d} : collection'[e] = collection[e]]_vars

\* an analysis has just replaced earlier diagnostics of a document by the empty
\* list of its new, short text while another document keeps its diagnostics
C10_Witness ==
    /\ lastOp.op = "analyze" /\ lastOp.doc = "a.dts"
    /\ docText["a.dts"] = ShortText
    /\ collection["a.dts"] = <<>>
    /\ HasDiagnostics("b.dts")

-----------------------------------------------------------------------------
(* Claims about the state the provider keeps between analyses *)

\* the tab width that belongs to document d itself during an analysis: the tab size
\* of the visible editor showing d, else the configured editor.tabSize
OwnTabSize(d, edTab) == IF HasVisibleEditor(d) THEN edTab ELSE DefaultTabSize

\* C11: the diagnostics an analysis stores for a document depend only on the
\* document's text and its own configuration (maxLineLength, tab width,
\* includeComments), whatever documents were analyzed before it.
C11_OwnConfigurationOnly ==
    [][lastOp'.op = "analyze" =>
          LET d == lastOp'.doc
          IN  collection'[d] = checkLineLength(docText'[d], OwnTabSize(d, editorTab'),
                                               provMaxLineLength', provInclude')]_vars

-----------------------------------------------------------------------------
(* Claims about the outcome of a formatting request *)

\* the text of the document the provider was asked to format
DocumentText == IF fmtCall = 1 THEN fmtInput ELSE fmtFirst

\* the text of the document once the host has applied the returned edits
DocumentAfterEdits == IF fmtEdits = <<>> THEN DocumentText ELSE fmtEdits[1].newText

ProviderReturned == fmtPc = "returned"

\* C12: if a pass of format throws, the exception does not escape: format returns
\* the empty text with { success: false, message }, and
\* provideDocumentFormattingEdits returns an empty edit list, so the document is
\* left exactly as it was.
C12_ThrowLeavesDocument ==
    fmtThrown # NotThrown =>
        /\ fmtPc \in {"failed", "returned"}
        /\ fmtData = <<>>
        /\ fmtResult = Failed(fmtThrown)
        /\ ProviderReturned =>
              /\ fmtEdits = <<>>
              /\ DocumentAfterEdits = DocumentText
              /\ fmtShown = <<"DeviceTree: ", "Formatting failed: ", fmtThrown>>

\* a pass threw while a node with a property was formatted, and the provider
\* returned
C12_Witness ==
    /\ ProviderReturned
    /\ fmtThrown # NotThrown
    /\ fmtCall = 1
    /\ fmtInput = JoinNL(<<RootNode, CellProperty>>)
    /\ fmtEdits = <<>>

-----------------------------------------------------------------------------
(* Claims about the width of the lines the formatter emits *)

\* the line holds a whole property assignment and nothing else: indentation, a name,
\* " = ", the entries and the closing ';', with no comment on the line
OneLineAssignment(line) ==
    LET i == RunEnd(line, 1, Blank)
        e == RunEnd(line, i, PropChar)
    IN  /\ e > i
        /\ StartsAt(line, e, <<SP, "=", SP>>)
        /\ line[Len(line)] = ";"
        /\ ~Occurs(<<"/", "/">>, line)
        /\ ~Occurs(<<"/", "*">>, line)

\* C14: a property assignment is emitted on a single line only if that line
\* (indentation, name, ' = ', the entries joined by ', ', ';', tabs expanded) is at
\* most maxLineLength columns wide; every longer assignment is laid out on several
\* lines, at any nesting depth, the top level included.
C14_OneLineOnlyIfItFits ==
    FirstCallDone =>
        \A n \in 1..Len(Split(fmtData)) :
            LET line == Split(fmtData)[n]
            IN  OneLineAssignment(line) => ColumnAfter(line, fmtTabSize) <= fmtMaxLineLength

\* C15: for the same configured maxLineLength and tab width the formatter and the
\* diagnostics apply the same limit: a property line the formatter emitted on one
\* line because it judged it to fit is never flagged by the diagnostics pass run on
\* the formatted text.
C15_FittingLineNotFlagged ==
    (fmtPc = "analyzed" /\ fmtCall = 1) =>
        \A n \in 1..Len(Split(lcText)) :
            LET line == Split(lcText)[n]
            IN  (/\ OneLineAssignment(line)
                 /\ Len(replaceTabsWithSpaces(line, fmtTabSize)) <= fmtMaxLineLength)
                    => \A k \in 1..Len(lcResult) : lcResult[k].line # n - 1

-----------------------------------------------------------------------------
(* Claims about what normalizeInput leaves in the returned text *)

\* characters of a node name
NodeNameChar == WordChar \cup {",", ".", "+", "-"}

\* first position of the run of characters of S that ends at position i
RECURSIVE RunBack(_, _, _)
RunBack(s, i, S) == IF i >= 1 /\ s[i] \in S THEN RunBack(s, i - 1, S) ELSE i + 1

\* a numeral without its leading zeros, one digit kept
RECURSIVE StripLeadingZeros(_)
StripLeadingZeros(addr) ==
    IF Len(addr) > 1 /\ Head(addr) = "0" THEN StripLeadingZeros(Tail(addr)) ELSE addr

\* the line ends with a node header "name@addr {" whose addr is hexadecimal
NodeHeader(line) ==
    LET a == IndexFrom(line, 1, <<"@">>)
        e == RunEnd(line, a + 1, HexChar)
    IN  /\ a > 1
        /\ line[a - 1] \in NodeNameChar
        /\ e > a + 1
        /\ SubSeq(line, e, Len(line)) = <<SP, "{">>

\* the header the claim expects for a line with a node header
ExpectedHeader(line) ==
    LET a == IndexFrom(line, 1, <<"@">>)
        e == RunEnd(line, a + 1, HexChar)
    IN  SubSeq(line, RunBack(line, a - 1, NodeNameChar), a)
            \o StripLeadingZeros(SubSeq(line, a + 1, e - 1)) \o <<SP, "{">>

\* the line is the header h after its indentation, a label at most before it
HoldsHeader(line, h) ==
    LET o == trimStart(line)
    IN  /\ Len(o) >= Len(h)
        /\ SubSeq(o, Len(o) - Len(h) + 1, Len(o)) = h
        /\ Len(o) > Len(h) => o[Len(o) - Len(h)] = SP

\* C16: for every node header "name@addr {" with a hexadecimal addr the returned
\* text has the header "name@addr' {", addr' being addr without its leading zeros
\* and with at least one digit ("000" becomes "0"); name and the remaining digits
\* are unchanged.
C16_LeadingZerosRemoved ==
    FirstCallDone =>
        \A n \in 1..Len(Split(fmtInput)) :
            LET line == Split(fmtInput)[n]
            IN  NodeHeader(line) =>
                    \E m \in 1..Len(Split(fmtData)) :
                        HoldsHeader(Split(fmtData)[m], ExpectedHeader(line))

\* C17: no line of a text format returned ends with a space or a tab, for any input
\* and any options, the lines laid out by the later passes included.
C17_NoTrailingBlank ==
    FirstCallDone =>
        \A n \in 1..Len(Split(fmtData)) :
            LET line == Split(fmtData)[n]
            IN  Len(line) > 0 => line[Len(line)] \notin Blank

\* C18: a text format returned never has more than one blank line in a row, that
\* is never three consecutive newline characters, after all four passes.
C18_NoBlankLineRun ==
    FirstCallDone => ~Occurs(<<NL, NL, NL>>, fmtData)

\* C19: every line of the input that lies inside a block comment, is not its first
\* line and begins with '*' after its blanks is, in the returned text, a line made
\* of the indentation, exactly one space, and the '*' with the same text after it
\* as in the input.
C19_CommentStarLines ==
    FirstCallDone =>
        \A n \in 1..Len(Split(fmtInput)) :
            CommentStarLine(Split(fmtInput), n) =>
                \E m \in 1..Len(Split(fmtData)) :
                    \E depth \in 0..Len(Split(fmtData)[m]) :
                        Split(fmtData)[m] =
                            IndentUnits(depth, fmtUseTabs, fmtTabSize) \o <<SP>>
                                \o trimStart(Split(fmtInput)[n])

-----------------------------------------------------------------------------
(* Claims about the comments the length pass leaves out *)

\* a line without its comments: every "/*" ... "*/" span and the suffix that a "//"
\* outside such a span starts are dropped, read from left to right
RECURSIVE WithoutComments(_, _)
WithoutComments(line, i) ==
    IF i > Len(line) \/ StartsAt(line, i, <<"/", "/">>) THEN <<>>
    ELSE IF StartsAt(line, i, <<"/", "*">>) /\ IndexFrom(line, i + 2, <<"*", "/">>) # 0
         THEN WithoutComments(line, IndexFrom(line, i + 2, <<"*", "/">>) + 2)
         ELSE <<line[i]>> \o WithoutComments(line, i + 1)

\* C20: with includeComments false the length measured for a line is the visual
\* length of the line with every "//..." suffix and every "/*...*/" span removed
\* (blanks left at its end not counted), the text before the first comment keeping
\* its columns; with includeComments true the whole line is measured.
C20_MeasuredWithoutComments ==
    lcPc = "done" =>
        \A n \in 1..Len(LcLinesOf) :
            lcLengths[n] =
                ColumnAfter(IF lcInclude THEN LcLinesOf[n]
                            ELSE trimEnd(WithoutComments(LcLinesOf[n], 1)), lcTabSize) + 1

-----------------------------------------------------------------------------
(* Claims about the layout of value lists *)

\* the bare words of the property values of a text read from position i: the maximal
\* runs of word characters between an "=" and the next ";" that lie outside
\* comments, strings and lists (inValue: an "=" has been read and no ";" since)
RECURSIVE BareWordsFrom(_, _, _)
BareWordsFrom(s, i, inValue) ==
    IF i > Len(s) THEN {}
    ELSE LET lineEnd == RunEndNot(s, i, LineEnd)
             commentEnd == FindFrom(s, i + 2, <<"*", "/">>)
             closed == IF s[i] \in {"\"", "<", "["}
                       THEN FindOnLine(s, i + 1, <<Closer(s[i])>>)
                       ELSE 0
             wordEnd == RunEnd(s, i, WordChar)
         IN  IF StartsAt(s, i, <<"/", "/">>) THEN BareWordsFrom(s, lineEnd, inValue)
             ELSE IF StartsAt(s, i, <<"/", "*">>) /\ commentEnd # 0
             THEN BareWordsFrom(s, commentEnd + 2, inValue)
             ELSE IF closed # 0 THEN BareWordsFrom(s, closed + 1, inValue)
             ELSE IF s[i] = "=" THEN BareWordsFrom(s, i + 1, TRUE)
             ELSE IF s[i] = ";" THEN BareWordsFrom(s, i + 1, FALSE)
             ELSE IF inValue /\ wordEnd > i
             THEN {SubSeq(s, i, wordEnd - 1)} \cup BareWordsFrom(s, wordEnd, inValue)
             ELSE BareWordsFrom(s, i + 1, inValue)

\* C21: the layout of a value list splits no unit of the value: every quoted string
\* and every bare identifier or number of the input's property values is in the
\* returned text with its characters next to each other, and every "<...>" list,
\* "[...]" list and comment is there with its characters in order and none of
\* another unit between them.
C21_UnitsNotSplit ==
    FirstCallDone =>
        /\ ContentPreserved(fmtInput, fmtData)
        /\ \A word \in BareWordsFrom(fmtInput, 1, FALSE) : Occurs(word, fmtData)

\* where the first comment of a line starts, "//" or "/*", at or after position i
\* (0 if the line has none)
RECURSIVE CommentStartFrom(_, _)
CommentStartFrom(line, i) ==
    IF i > Len(line) THEN 0
    ELSE IF StartsAt(line, i, <<"/", "/">>) \/ StartsAt(line, i, <<"/", "*">>) THEN i
    ELSE CommentStartFrom(line, i + 1)

\* a line of a value list that carries a trailing comment: the entry ends with its
\* "," or ";", one space follows and then the comment
PunctuatedBeforeComment(line) ==
    LET start == CommentStartFrom(line, 1)
    IN  /\ start > 2
        /\ line[start - 1] = SP
        /\ line[start - 2] \in {",", ";"}

\* a line of the returned text that the layout wrote: it is not a line of the input
\* with another indentation
LaidOut(line) ==
    \A n \in 1..Len(Split(fmtInput)) : trimStart(Split(fmtInput)[n]) # trimStart(line)

\* C22: in the returned text every line that the layout wrote and that holds an
\* entry of a value list and a trailing comment has the entry's "," or ";" before
\* the comment and exactly one space between the punctuation and the comment; the
\* ";" is neither after nor inside the comment.
C22_PunctuationBeforeComment ==
    FirstCallDone =>
        \A n \in 1..Len(Split(fmtData)) :
            LET line == Split(fmtData)[n]
                start == CommentStartFrom(line, 1)
            IN  (LaidOut(line) /\ start # 0 /\ trim(SubSeq(line, 1, start - 1)) # <<>>)
                    => PunctuatedBeforeComment(line)

\* the entries of a value read from position i, cur being the entry read so far: an
\* entry ends at a comma outside strings, lists and comments, and a comment that
\* follows the comma on its line belongs to the entry
RECURSIVE TopLevelEntriesFrom(_, _, _)
TopLevelEntriesFrom(val, i, cur) ==
    IF i > Len(val) THEN (IF Squeeze(cur) # <<>> THEN <<cur>> ELSE <<>>)
    ELSE LET lineEnd == RunEndNot(val, i, LineEnd)
             commentEnd == FindOnLine(val, i + 2, <<"*", "/">>)
             closed == IF val[i] \in {"\"", "<", "["}
                       THEN FindOnLine(val, i + 1, <<Closer(val[i])>>)
                       ELSE 0
             after == RunEnd(val, i + 1, Blank)
             attached == IF StartsAt(val, after, <<"/", "/">>)
                         THEN RunEndNot(val, after, LineEnd)
                         ELSE IF StartsAt(val, after, <<"/", "*">>)
                                 /\ FindOnLine(val, after + 2, <<"*", "/">>) # 0
                         THEN FindOnLine(val, after + 2, <<"*", "/">>) + 2
                         ELSE i + 1
         IN  IF StartsAt(val, i, <<"/", "/">>)
             THEN TopLevelEntriesFrom(val, lineEnd, cur \o SubSeq(val, i, lineEnd - 1))
             ELSE IF StartsAt(val, i, <<"/", "*">>) /\ commentEnd # 0
             THEN TopLevelEntriesFrom(val, commentEnd + 2,
                                      cur \o SubSeq(val, i, commentEnd + 1))
             ELSE IF closed # 0
             THEN TopLevelEntriesFrom(val, closed + 1, cur \o SubSeq(val, i, closed))
             ELSE IF val[i] = ","
             THEN <<cur \o SubSeq(val, i, attached - 1)>>
                     \o TopLevelEntriesFrom(val, attached, <<>>)
             ELSE TopLevelEntriesFrom(val, i + 1, Append(cur, val[i]))

\* the entries of a list without their whitespace
SqueezedEntries(entries) == [n \in 1..Len(entries) |-> Squeeze(entries[n])]

\* C23: for every value the property pass hands on, parseCommaSeparatedValues
\* returns the entries that the commas outside strings, "<...>" lists and "[...]"
\* lists delimit: a comma inside one of them ends no entry, nothing but such a comma
\* starts a new entry, and a comment following an entry's comma is part of that
\* entry (entries compared without their whitespace).
C23_EntriesAtTopLevelCommas ==
    (fmtPc = "formatPropertyAssignments" /\ fmtCall = 1) =>
        \A val \in PropertyValuesFrom(fmtData, 1) :
            SqueezedEntries(parseCommaSeparatedValues(val))
                = SqueezedEntries(TopLevelEntriesFrom(val, 1, <<>>))

\* the column that follows "name = " on a property's line (-1 when the line does not
\* start with a property name and " =")
ValueColumn(line, tabSize) ==
    LET b == RunEnd(line, 1, Blank)
        e == RunEnd(line, b, PropChar)
    IN  IF e > b /\ StartsAt(line, e, <<SP, "=">>)
        THEN ColumnAfter(SubSeq(line, 1, e - 1), tabSize) + 3
        ELSE -1

\* line m holds an entry of the value list that the property of line n opens: no
\* line from n up to m - 1 holds the ';' that ends the list
EntryLineOf(lines, n, m, tabSize) ==
    /\ n < m
    /\ ValueColumn(lines[n], tabSize) >= 0
    /\ \A j \in n..(m - 1) : ~Contains(lines[j], ";")

\* an indentation that reaches a column with whole tab stops as tabs and the rest as
\* spaces, or with spaces only
AlignsAt(indentation, column, useTabs, tabSize) ==
    indentation = IF useTabs
                  THEN Repeat(TAB, column \div tabSize) \o Repeat(SP, column % tabSize)
                  ELSE Repeat(SP, column)

\* C24: in the returned text every line below a property's first line, up to the
\* line with the ';' of the value list, holds one entry of the list and starts at
\* the column following "= " on the property's line, the tab-expanded width of
\* indentation + name + " = ": whole tab stops as tabs and the rest as spaces in
\* tab mode, spaces in space mode.
C24_EntriesAtValueColumn ==
    FirstCallDone =>
        LET lines == Split(fmtData)
        IN  \A n \in 1..Len(lines) : \A m \in 1..Len(lines) :
                EntryLineOf(lines, n, m, fmtTabSize) =>
                    /\ AlignsAt(Indentation(lines[m]), ValueColumn(lines[n], fmtTabSize),
                                fmtUseTabs, fmtTabSize)
                    /\ Len(TopLevelEntriesFrom(trim(lines[m]), 1, <<>>)) = 1

\* a list of two strings laid out over two lines in tab mode, the second string
\* below the first
C24_Witness ==
    /\ FirstCallDone
    /\ fmtInput = JoinNL(<<RootNode, StringListProperty>>)
    /\ fmtUseTabs
    /\ fmtTabSize = 2
    /\ Len(Split(fmtData)) = 3
    /\ EntryLineOf(Split(fmtData), 2, 3, fmtTabSize)
    /\ Split(fmtData)[3] = <<TAB, TAB, TAB, SP, "\"", "c", "\"", ";">>

-----------------------------------------------------------------------------
(* Claims about the continuation indent of the block pass *)

BlockPassDone == fmtPc = "formatPropertyAssignments" /\ fmtCall = 1

\* in the text the block pass wrote, line n is a property's line that ends with ','
\* and line m is one of the lines after it up to and including the next line that
\* ends with ';'
ContinuesFrom(lines, n, m, tabSize) ==
    /\ n < m
    /\ ValueColumn(lines[n], tabSize) >= 0
    /\ EndsWith(trimEnd(lines[n]), ",")
    /\ \A j \in n..(m - 1) : ~EndsWith(trimEnd(lines[j]), ";")

\* C25: in the text the block pass returns, every non-empty line that follows a
\* property's line ending with ',', up to and including the next line ending with
\* ';', starts at the column immediately after the "= " of that property's line as
\* the pass wrote it.
C25_ContinuationAtValueColumn ==
    BlockPassDone =>
        LET lines == Split(fmtData)
        IN  \A n \in 1..Len(lines) : \A m \in 1..Len(lines) :
                (ContinuesFrom(lines, n, m, fmtTabSize) /\ Len(lines[m]) > 0) =>
                    ColumnAfter(Indentation(lines[m]), fmtTabSize)
                        = ValueColumn(lines[n], fmtTabSize)

-----------------------------------------------------------------------------
(* Claims about malformed input *)

\* C26: for a text with an unclosed '<', '[', '"' or "/*" or with unbalanced braces
\* format returns success, every character of the text that is not whitespace is
\* in the returned text in its place (the unclosed delimiter is an ordinary
\* character), and every well-formed line of the text is a line of the returned
\* text, with its indentation.
C26_MalformedLeftAlone ==
    FirstCallDone =>
        /\ fmtResult = Succeeded
        /\ Squeeze(fmtData) = Squeeze(fmtInput)
        /\ \A n \in 1..Len(Split(fmtInput)) :
               Split(fmtInput)[n] \in WellFormedPieces =>
                   \E m \in 1..Len(Split(fmtData)) :
                       trimStart(Split(fmtData)[m]) = Split(fmtInput)[n]

-----------------------------------------------------------------------------
(* Claims about the callbacks the change handler schedules *)

\* C27: change events are debounced: change events of a document that arrive before
\* the callback of the previous one has run lead to one run of analyzeDocument,
\* after the last of them; when a scheduled callback of a document runs, no other
\* callback of that document is left scheduled.
C27_OneRunPerBurst ==
    [][\A d \in DtsDocs : pending'[d] < pending[d] => pending'[d] = 0]_vars

\* the tab sizes an analysis can measure with
TabSizesInUse == EditorTabSizes \cup {DefaultTabSize}

\* no callback of d is scheduled while d is open and the change listener is
\* registered
Quiescent(d) == listening /\ provider = "set" /\ ~docClosed[d] /\ pending[d] = 0

\* C28: with warnings enabled, whenever a document is open and every callback
\* scheduled for it has run, the diagnostics stored for it are those of its
\* current text, measured with one of the tab sizes in use.
C28_QuiescentDiagnosticsCurrent ==
    \A d \in DtsDocs :
        Quiescent(d) =>
            /\ collection[d] # NoEntry
            /\ \E t \in TabSizesInUse :
                   collection[d] = checkLineLength(docText[d], t, provMaxLineLength,
                                                   provInclude)

\* b.dts was changed to the long text and the last callback scheduled for it has
\* just run: the warning of the long line is stored
C28_Witness ==
    /\ Quiescent("b.dts")
    /\ docText["b.dts"] = LongText
    /\ lastOp = [op |-> "analyze", doc |-> "b.dts", by |-> "timer"]
    /\ collection["b.dts"] # NoEntry
    /\ Len(collection["b.dts"]) = 1


\* C29: once deactivate has disposed the provider no analysis runs and nothing is
\* written to the disposed collection: every step taken while the provider is
\* unset, the run of a callback scheduled before the deactivation included, calls
\* neither analyzeDocument nor clearDocument and leaves the collection empty.
C29_NothingAfterDispose ==
    [][provider = "undefined" =>
          /\ lastOp'.op \notin {"analyze", "clear"}
          /\ \A d \in DtsDocs : collection'[d] = NoEntry]_vars

\* a callback scheduled for a.dts before the deactivation has just run after it
C29_Witness ==
    /\ provider = "undefined"
    /\ lastOp = [op |-> "none", doc |-> "a.dts", by |-> "timer"]
    /\ \A d \in DtsDocs : collection[d] = NoEntry

-----------------------------------------------------------------------------
(* Claims about the depth the block pass keeps *)

\* the depth after line n when a line that closes more blocks than are open leaves
\* depth 0
RECURSIVE ClampedDepthAfter(_, _)
ClampedDepthAfter(lines, n) ==
    IF n = 0 THEN 0
    ELSE Max(0, ClampedDepthAfter(lines, n - 1) + BraceDelta(lines[n]))

\* the depth line n is written at: a closing line is one of the block it closes
OwnClampedDepth(lines, n) ==
    Max(0, ClampedDepthAfter(lines, n - 1) + Min(0, BraceDelta(lines[n])))

\* every '}' closes a block opened before it and no block stays open
Balanced(lines) ==
    /\ \A n \in 1..(Len(lines) + 1) : DepthBefore(lines, n) >= 0
    /\ DepthBefore(lines, Len(lines) + 1) = 0

\* C30: in the block pass the running depth, the number of indent units of indent,
\* is never negative: after every line it is the depth of the braces read so far,
\* with 0 in place of a negative value when a line closes more blocks than are
\* open; every line is written at that depth, and when the braces of the text are
\* balanced the depth after its last line is 0.
C30_DepthClampedAtZero ==
    BlockPassDone =>
        LET lines == Split(fmtData)
        IN  /\ \A n \in 0..Len(lines) :
                   IndentAfter(lines, n, fmtUseTabs, fmtTabSize)
                       = IndentUnits(ClampedDepthAfter(lines, n), fmtUseTabs, fmtTabSize)
            /\ \A n \in 1..Len(lines) :
                   Len(lines[n]) > 0 =>
                       Indentation(lines[n])
                           = IndentUnits(OwnClampedDepth(lines, n), fmtUseTabs, fmtTabSize)
            /\ Balanced(lines) =>
                   IndentAfter(lines, Len(lines), fmtUseTabs, fmtTabSize) = <<>>

\* a line that closes two blocks while one is open: it is written without
\* indentation and leaves depth 0
C30_Witness ==
    /\ BlockPassDone
    /\ fmtInput = JoinNL(<<RootNode, DoubleClose>>)
    /\ Split(fmtData) = <<RootNode, DoubleClose>>
    /\ ~Balanced(Split(fmtData))
    /\ IndentAfter(Split(fmtData), 1, fmtUseTabs, fmtTabSize) # <<>>
    /\ IndentAfter(Split(fmtData), 2, fmtUseTabs, fmtTabSize) = <<>>

====
